---- MODULE Spec2Model ----
(***************************************************************************)
(* Deadlock-Go: a dynamic deadlock detector for Go.  Mutex and RWMutex     *)
(* wrap sync.Mutex / sync.RWMutex; every Lock / TryLock / Unlock records   *)
(* per-routine lock trees (dependencies), from which the comprehensive     *)
(* detector (FindPotentialDeadlocks) and the periodical detector search    *)
(* for cyclic chains.                                                      *)
(*                                                                         *)
(* Goroutines are 1..NThreads, goroutine 1 is main.  Locks are 1..NLocks,  *)
(* the value 0 stands for nil.  Routine indices are 0-based as in the Go   *)
(* code; routine i is routines[i+1].                                       *)
(***************************************************************************)
EXTENDS Integers, Sequences, FiniteSets, TLC

\* ------------------------------------------------------------------ bounds
NThreads == 4
NLocks == 3
\* the client never nests deeper than MaxHold tracked locks per routine
MaxHold == 3
\* the free client stops adding dependencies to a routine at MaxDeps
MaxDeps == 2

\* -------------------------------------------------- program constants
DefaultMaxDependencies == 4096
DefaultMaxNumberOfDependentLocks == 128
DefaultMaxRoutines == 1024
DefaultMaxCallStackSize == 2048
\* options.go: the default of opts.periodicDetectionTime, in seconds
DefaultPeriodicDetectionTime == 2
\* the largest number a client passes to a setter of a numeric option
MaxCap == 2
\* index of the empty element newDepStack puts at the bottom of the stack
SentinelIndex == -1
\* getRoutineIndex returns -1 for a goroutine that is not registered
NoIndex == -1

Threads == 1..NThreads
Locks == 1..NLocks
Main == 1
Indices == NoIndex..NThreads

VARIABLES
    client,               \* the client program that drives the library
    opts,                 \* options.go: opts
    initialized,          \* initialize.go: initialized
    tickers,              \* number of background ticker goroutines started
    kind,                 \* per lock: "none" (not created), "Mutex", "RWMutex"
    memoryPosition,       \* per lock: memoryPosition, the address of the lock
    started,              \* goroutines that exist
    routines,             \* routine.go: routines[0..numberRoutines)
    mapIndex,             \* routine.go: mapIndex (goid -> index), NoIndex if absent
    numberLocked,         \* per lock: numberLocked
    isLockedRoutineIndex, \* per lock: isLockedRoutineIndex (index -> count)
    isRLock,              \* per lock: the indices whose isRLock entry is true
    mu,                   \* per lock: the wrapped sync primitive
    pc,                   \* per goroutine: where it is inside a lock operation
    lastHolding,          \* initialize.go: lastHolding of the ticker goroutine
    tickPc,               \* the ticker goroutine: "idle" or "detect"
    phase,                \* "run", "finished", "exit2", "panic"
    exitReason,           \* why the process exited: "double" (with the caller
                          \* and the lock of the report) or "periodical"
    reports,              \* cycles handed to reportDeadlock, in order
    alarm,                \* the stack found by the periodical detector
    last                  \* the call that returned in the last step, with the
                          \* value it returned; NoCall after any other step

cfgVars == <<client, opts, initialized, tickers, kind, memoryPosition, started>>
regVars == <<routines, mapIndex>>
lockVars == <<numberLocked, isLockedRoutineIndex, isRLock, mu>>
detVars == <<lastHolding, tickPc>>
endVars == <<phase, exitReason, reports, alarm>>
vars == <<client, opts, initialized, tickers, kind, memoryPosition, started,
          routines, mapIndex,
          numberLocked, isLockedRoutineIndex, isRLock, mu, pc, lastHolding,
          tickPc, phase, exitReason, reports, alarm, last>>

\* no option setter and no try-lock returned in the step
NoCall == [op |-> "none", t |-> 0, m |-> 0, ret |-> FALSE]

\* the call op of goroutine t on lock m returns ret, if the process goes on
Returned(op, t, m, ret) ==
    last' = IF phase' = "run" THEN [op |-> op, t |-> t, m |-> m, ret |-> ret]
            ELSE NoCall

\* ------------------------------------------------------------- options
DefaultOpts ==
    [activated |-> TRUE,
     periodicDetection |-> TRUE,
     comprehensiveDetection |-> TRUE,
     periodicDetectionTime |-> DefaultPeriodicDetectionTime,
     collectCallStack |-> FALSE,
     collectSingleLevelLockStack |-> TRUE,
     checkDoubleLocking |-> TRUE,
     maxDependencies |-> DefaultMaxDependencies,
     maxNumberOfDependentLocks |-> DefaultMaxNumberOfDependentLocks,
     maxRoutines |-> DefaultMaxRoutines,
     maxCallStackSize |-> DefaultMaxCallStackSize]

\* ------------------------------------------------------------- helpers
numberRoutines == Len(routines)

\* runtime.NumGoroutine(): main, the started goroutines and the tickers
NumGoroutine == Cardinality(started) + tickers

\* routine.go: routine{...} as newRoutine builds it
NewRoutineRecord(i) ==
    [index |-> i, holdingCount |-> 0, holdingSet |-> <<>>,
     dependencies |-> <<>>, curDep |-> 0, depCount |-> 0]

\* routines[i] of the Go slice: a zero-valued routine beyond numberRoutines
RoutineAt(rs, i) ==
    IF i >= 0 /\ i < Len(rs) THEN rs[i + 1] ELSE NewRoutineRecord(0)

\* dependency.go: newDependency followed by update: a copy of the live prefix
newDependency(lock, currentLocks, numberOfLocks) ==
    [mu |-> lock,
     holdingSet |-> SubSeq(currentLocks, 1, numberOfLocks),
     holdingCount |-> numberOfLocks]

\* RWMutex.getRLock / Mutex.getRLock
getRLock(m, routineIndex) ==
    kind[m] = "RWMutex" /\ routineIndex \in isRLock[m]

\* detector.go: mutexHaveEqualLock
mutexHaveEqualLock(m1, m2) ==
    /\ (kind[m1] = "Mutex") = (kind[m2] = "Mutex")
    /\ m1 = m2

\* the dependency a stack element points to
DepEntry(rs, el) == rs[el.r + 1].dependencies[el.d]

\* stack.go: push
push(stack, r, d, index) == Append(stack, [r |-> r, d |-> d, index |-> index])

\* --------------------------------------------- chain and cycle predicates
\* isChain without the comparison of the holding sets along the path
isChainNoGate(rs, stack, cand, routineIndex) ==
    LET dep == DepEntry(rs, cand)
        top == stack[Len(stack)]
        topMu == DepEntry(rs, top).mu
    IN  \E i \in 1..dep.holdingCount :
            /\ mutexHaveEqualLock(dep.holdingSet[i], topMu)
            /\ ~(getRLock(dep.holdingSet[i], routineIndex)
                 /\ getRLock(topMu, top.index))

\* isCycleChain that looks for the lock of the bottom dependency instead of
\* the locks of its holding set
isCycleChainOnMu(rs, stack, cand, routineIndex) ==
    mutexHaveEqualLock(DepEntry(rs, stack[1]).mu, DepEntry(rs, cand).mu)

\* isChain without the test that the candidate is not already on the path
isChainRepeats(rs, stack, cand, routineIndex) ==
    LET dep == DepEntry(rs, cand)
        top == stack[Len(stack)]
        topMu == DepEntry(rs, top).mu
        found ==
            \E i \in 1..dep.holdingCount :
                /\ mutexHaveEqualLock(dep.holdingSet[i], topMu)
                /\ ~(getRLock(dep.holdingSet[i], routineIndex)
                     /\ getRLock(topMu, top.index))
        clash(c) ==
            \E i \in 1..dep.holdingCount :
                \E j \in 1..DepEntry(rs, c).holdingCount :
                    LET lockInDepHs == dep.holdingSet[i]
                        lockInCHoldingSet == DepEntry(rs, c).holdingSet[j]
                    IN  /\ mutexHaveEqualLock(lockInDepHs, lockInCHoldingSet)
                        /\ ~(getRLock(lockInCHoldingSet, c.index)
                             /\ getRLock(lockInDepHs, routineIndex))
    IN  found /\ \A k \in 1..Len(stack) : ~clash(stack[k])

\* detector.go: isChain.  cand is (routine, position) of the dependency,
\* routineIndex the index handed in by the caller.
isChain(rs, stack, cand, routineIndex) ==
    LET dep == DepEntry(rs, cand)
        top == stack[Len(stack)]
        topMu == DepEntry(rs, top).mu
        found ==
            \E i \in 1..dep.holdingCount :
                /\ mutexHaveEqualLock(dep.holdingSet[i], topMu)
                /\ ~(getRLock(dep.holdingSet[i], routineIndex)
                     /\ getRLock(topMu, top.index))
        clash(c) ==
            \/ (c.r = cand.r /\ c.d = cand.d)
            \/ \E i \in 1..dep.holdingCount :
                   \E j \in 1..DepEntry(rs, c).holdingCount :
                       LET lockInDepHs == dep.holdingSet[i]
                           lockInCHoldingSet == DepEntry(rs, c).holdingSet[j]
                       IN  /\ mutexHaveEqualLock(lockInDepHs, lockInCHoldingSet)
                           /\ ~(getRLock(lockInCHoldingSet, c.index)
                                /\ getRLock(lockInDepHs, routineIndex))
    IN  found /\ \A k \in 1..Len(stack) : ~clash(stack[k])

\* detector.go: isCycleChain.  The reader flag of the bottom lock is looked
\* up with dStack.stack.index, the index of the empty bottom element.
isCycleChain(rs, stack, cand, routineIndex) ==
    LET dep == DepEntry(rs, cand)
        bottom == DepEntry(rs, stack[1])
    IN  \E i \in 1..bottom.holdingCount :
            /\ mutexHaveEqualLock(bottom.holdingSet[i], dep.mu)
            /\ ~(getRLock(bottom.holdingSet[i], SentinelIndex)
                 /\ getRLock(dep.mu, routineIndex))

\* ------------------------------------------------ comprehensive detection
\* detector.go: dfs.  The two nested loops run from (i, j); the result is
\* the sequence of stacks handed to reportDeadlock.  j is 1-based here, the
\* reported element carries the Go value of j.
RECURSIVE dfsLoop(_, _, _, _, _, _)
dfsLoop(rs, stack, visiting, isTraversed, i, j) ==
    IF i >= Len(rs) THEN <<>>
    ELSE IF i \in isTraversed \/ j > rs[i + 1].depCount
    THEN dfsLoop(rs, stack, visiting, isTraversed, i + 1, 1)
    ELSE LET cand == [r |-> i, d |-> j]
             here ==
                 IF ~isChain(rs, stack, cand, i) THEN <<>>
                 ELSE IF isCycleChain(rs, stack, cand, i)
                 THEN <<push(stack, i, j, j - 1)>>
                 ELSE dfsLoop(rs, push(stack, i, j, i), visiting,
                              isTraversed \cup {i}, visiting + 1, 1)
         IN  here \o dfsLoop(rs, stack, visiting, isTraversed, i, j + 1)

\* dfs that continues the path with every routine but the first of the path
dfsAllRoutines(rs, stack, visiting, isTraversed) ==
    dfsLoop(rs, stack, 0 - 1, {stack[1].r}, 0, 1)

dfs(rs, stack, visiting, isTraversed) ==
    dfsLoop(rs, stack, visiting, isTraversed, visiting + 1, 1)

\* detector.go: detect
RECURSIVE detectLoop(_, _, _)
detectLoop(rs, i, j) ==
    IF i >= Len(rs) THEN <<>>
    ELSE IF j > rs[i + 1].depCount THEN detectLoop(rs, i + 1, 1)
    ELSE dfs(rs, push(<<>>, i, j, i), i, 0..i) \o detectLoop(rs, i, j + 1)

detect(rs) == detectLoop(rs, 0, 1)

\* the decimal digits fmt.Sprint prints for a number
RECURSIVE Sprint(_)
Sprint(n) == IF n < 10 THEN <<n>> ELSE Append(Sprint(n \div 10), n % 10)

\* mutex.go / rwMutex.go: getMemoryPosition
getMemoryPosition(m) == memoryPosition[m]

\* detector.go: getDependencyString
RECURSIVE holdingString(_, _)
holdingString(dep, i) ==
    IF i > dep.holdingCount THEN <<>>
    ELSE Sprint(getMemoryPosition(dep.holdingSet[i])) \o holdingString(dep, i + 1)

getDependencyString(dep) ==
    Sprint(getMemoryPosition(dep.mu)) \o holdingString(dep, 1)

\* detector.go: isNumberDependenciesGreaterEqualTwo
isNumberDependenciesGreaterEqualTwo(rs) ==
    Cardinality({getDependencyString(rs[i].dependencies[j]) :
                     <<i, j>> \in {p \in (1..Len(rs)) \X (1..MaxDeps + 1) :
                                       p[2] <= rs[p[1]].depCount}}) >= 2

\* detector.go: FindPotentialDeadlocks, the cycles it reports
FindPotentialDeadlocks(rs) ==
    IF ~opts.comprehensiveDetection THEN <<>>
    ELSE IF Len(rs) > 1 /\ isNumberDependenciesGreaterEqualTwo(rs)
    THEN detect(rs)
    ELSE <<>>

\* -------------------------------------------------- periodical detection
\* the lock on top of the holding set of a routine, nil (0) if it holds none
TopHolding(r) ==
    IF r.holdingCount - 1 >= 0 THEN r.holdingSet[r.holdingCount] ELSE 0

\* detector.go: dfsPeriodical, the re-check of the routines of the chain:
\* routines[cl.index] is read with the index stored in the stack element
chainChanged(rs, lh, stack) ==
    \E k \in 1..Len(stack) :
        lh[stack[k].index] # TopHolding(RoutineAt(rs, stack[k].index))

\* what the periodical search yields when isTraversed[numberRoutines] is
\* beyond the opts.maxRoutines entries of isTraversed: the runtime panics
OutOfRange == <<[r |-> NoIndex, d |-> 0, index |-> NoIndex]>>

\* detector.go: dfsPeriodical.  The loop over the routines runs from i; the
\* result is the stack for which the program is terminated, <<>> if the
\* search returns.  An element that is not the last of a cycle is pushed
\* with numberRoutines as its index, and that entry of isTraversed is set.
RECURSIVE dfsPeriodicalLoop(_, _, _, _, _, _)
dfsPeriodicalLoop(rs, lh, stack, visiting, isTraversed, i) ==
    IF i >= Len(rs) THEN <<>>
    ELSE LET r == rs[i + 1]
             cand == [r |-> i, d |-> r.curDep]
             rest == dfsPeriodicalLoop(rs, lh, stack, visiting, isTraversed, i + 1)
         IN  IF r.curDep = 0 \/ i \in isTraversed THEN rest
             ELSE IF ~isChain(rs, stack, cand, i) THEN rest
             ELSE IF isCycleChain(rs, stack, cand, i)
             THEN IF ~chainChanged(rs, lh, push(stack, i, r.curDep, i))
                  THEN push(stack, i, r.curDep, i)
                  ELSE rest
             ELSE IF Len(rs) >= opts.maxRoutines THEN OutOfRange
             ELSE LET deeper ==
                          dfsPeriodicalLoop(rs, lh,
                              push(stack, i, r.curDep, Len(rs)), visiting,
                              isTraversed \cup {Len(rs)}, visiting + 1)
                  IN  IF deeper # <<>> THEN deeper
                      ELSE dfsPeriodicalLoop(rs, lh, stack, visiting,
                               isTraversed \ {Len(rs)}, i + 1)

dfsPeriodical(rs, lh, stack, visiting, isTraversed) ==
    dfsPeriodicalLoop(rs, lh, stack, visiting, isTraversed, visiting + 1)

\* detector.go: detectionPeriodical.  r is a copy of routines[index], so
\* the assignment r.curDep = nil leaves routines[index].curDep as it is.
RECURSIVE detectionPeriodicalLoop(_, _, _, _)
detectionPeriodicalLoop(rs, lh, isTraversed, index) ==
    IF index >= Len(rs) THEN <<>>
    ELSE IF rs[index + 1].curDep = 0
    THEN detectionPeriodicalLoop(rs, lh, isTraversed, index + 1)
    ELSE LET found == dfsPeriodical(rs, lh,
                          push(<<>>, index, rs[index + 1].curDep, index),
                          index, isTraversed \cup {index})
         IN  IF found # <<>> THEN found
             ELSE detectionPeriodicalLoop(rs, lh, isTraversed \cup {index},
                                          index + 1)

detectionPeriodical(rs, lh) == detectionPeriodicalLoop(rs, lh, {}, 0)

\* detector.go: periodicalDetection, the loop over the routines: the new
\* lastHolding, whether something is new, and the number of routines that
\* hold at least two locks among those whose top lock has changed
scanLastHolding(rs, lh) ==
    [i \in DOMAIN lh |-> IF i < Len(rs) THEN TopHolding(rs[i + 1]) ELSE lh[i]]

scanSthNew(rs, lh) ==
    \E i \in 0..Len(rs) - 1 : lh[i] # TopHolding(rs[i + 1])

scanNrThreadsHoldingLocks(rs, lh) ==
    Cardinality({i \in 0..Len(rs) - 1 :
                     /\ lh[i] # TopHolding(rs[i + 1])
                     /\ rs[i + 1].holdingCount - 1 > 0})

\* ------------------------------------------------------- client programs
\* In a chain client main only starts the goroutines and calls
\* FindPotentialDeadlocks; goroutine t takes the locks of one of its chains
\* in order, each while holding the ones before it, and releases them in
\* reverse order, any number of times.  The ordered client takes locks only
\* in increasing order and releases its own locks; the own client calls any
\* operation but unlocks only what the calling goroutine holds; the free
\* client calls any operation, Unlock of a lock another goroutine holds
\* included.
ChainClients == {"abba", "ring", "rw", "gate", "stale", "mode", "far"}

\* clients that go on calling option setters after they created a lock: late
\* creates a Mutex first, laterw an RWMutex
LateClients == {"late", "laterw"}

W(m) == [m |-> m, rLock |-> FALSE]
R(m) == [m |-> m, rLock |-> TRUE]

Chains(c, t) ==
    CASE c = "abba" /\ t = 2 -> {<<W(1), W(2)>>}
      [] c = "abba" /\ t = 3 -> {<<W(2), W(1)>>}
      [] c = "ring" /\ t = 2 -> {<<W(1), W(2)>>}
      [] c = "ring" /\ t = 3 -> {<<W(2), W(3)>>}
      [] c = "ring" /\ t = 4 -> {<<W(3), W(1)>>}
      [] c = "rw" /\ t = 2 -> {<<R(1), W(2)>>}
      [] c = "rw" /\ t = 3 -> {<<W(2), R(1)>>}
      [] c = "gate" /\ t = 2 -> {<<W(3), W(1), W(2)>>}
      [] c = "gate" /\ t = 3 -> {<<W(3), W(2), W(1)>>}
      [] c = "stale" /\ t = 2 -> {<<W(1), W(2)>>}
      [] c = "stale" /\ t = 3 -> {<<W(3), W(1)>>, <<W(2), W(1)>>}
      [] c = "mode" /\ t = 2 -> {<<W(1), W(2)>>, <<R(1)>>}
      [] c = "mode" /\ t = 3 -> {<<W(2), R(1)>>}
      [] c = "far" /\ t = 2 -> {<<W(2), W(1)>>}
      [] c = "far" /\ t = 3 -> {<<W(1), W(3)>>}
      [] OTHER -> {}

\* the constructor the client calls for lock m: NewLock or NewRWLock
ClientKind(c, m) ==
    CASE c = "abba" -> IF m <= 2 THEN "Mutex" ELSE "none"
      [] c \in {"ring", "gate", "stale", "far"} ->
            IF m <= 3 THEN "Mutex" ELSE "none"
      [] c \in {"rw", "mode"} ->
            IF m = 1 THEN "RWMutex" ELSE IF m = 2 THEN "Mutex" ELSE "none"
      [] c = "ordered" -> IF m <= 2 THEN "Mutex" ELSE "none"
      [] c = "late" -> IF m = 1 THEN "Mutex" ELSE "none"
      [] c = "judge" ->
            IF m = 1 THEN "RWMutex" ELSE IF m <= 3 THEN "Mutex" ELSE "none"
      [] c = "misuse" -> IF m = 1 THEN "Mutex" ELSE "none"
      [] c = "first" -> IF m <= 2 THEN "Mutex" ELSE "none"
      [] c = "caps" -> IF m <= 2 THEN "Mutex" ELSE "none"
      [] c = "try" -> IF m = 1 THEN "RWMutex" ELSE IF m = 2 THEN "Mutex" ELSE "none"
      [] OTHER -> IF m = 1 THEN "RWMutex" ELSE "none"

\* the goroutines of the client, main included
ClientThreads(c) ==
    CASE c = "ring" -> {1, 2, 3, 4}
      [] c \in ChainClients \ {"ring"} -> {1, 2, 3}
      [] OTHER -> {1, 2}

\* the locks goroutine t holds in the primitives
Holds(t, m) == mu[m].w = t \/ mu[m].r[t] > 0
HeldCount(t) == Cardinality({m \in Locks : Holds(t, m)})

\* goroutine t holds the lock of chain element e in the mode of e
HoldsAs(t, e) == IF e.rLock THEN mu[e.m].r[t] > 0 ELSE mu[e.m].w = t

ChainMay(c, t, op, m) ==
    \E ch \in Chains(c, t) :
        LET k == HeldCount(t)
        IN  /\ k <= Len(ch)
            /\ \A i \in 1..Len(ch) : HoldsAs(t, ch[i]) <=> i <= k
            /\ \/ /\ op \in {"Lock", "RLock"}
                  /\ k < Len(ch)
                  /\ ch[k + 1] = [m |-> m, rLock |-> (op = "RLock")]
               \/ /\ op \in {"Unlock", "RUnlock"}
                  /\ k >= 1
                  /\ ch[k] = [m |-> m, rLock |-> (op = "RUnlock")]

OrderedMay(t, op, m) ==
    \/ /\ op \in {"Lock", "TryLock"}
       /\ \A m2 \in Locks : Holds(t, m2) => m2 < m
    \/ /\ op = "Unlock"
       /\ mu[m].w = t

OwnMay(t, op, m) ==
    op = "Unlock" => mu[m].w = t

\* the try client takes locks in increasing order and releases its own
\* locks; main uses any of the locking operations, the other goroutine
\* only TryLock and RTryLock
TryMay(t, op, m) ==
    \/ /\ op \in {"Lock", "RLock", "TryLock", "RTryLock"}
       /\ op \in {"Lock", "RLock"} => t = Main
       /\ \A m2 \in Locks : Holds(t, m2) => m2 < m
    \/ /\ op = "Unlock"
       /\ mu[m].w = t
    \/ op = "RUnlock"

\* in the caps client main calls Lock, the other goroutine calls TryLock,
\* and both release their own locks
CapsMay(t, op, m) ==
    /\ op = "Lock" => t = Main
    /\ op = "TryLock" => t # Main
    /\ op = "Unlock" => mu[m].w = t

\* the switch client holds one lock at a time and releases its own locks;
\* it may call Lock again for the lock it holds
SwitchMay(t, op, m) ==
    \/ /\ op \in {"Lock", "RLock", "TryLock", "RTryLock"}
       /\ \A m2 \in Locks : ~Holds(t, m2)
    \/ /\ op = "Lock"
       /\ mu[m].w = t
    \/ /\ op = "Unlock"
       /\ mu[m].w = t
    \/ op = "RUnlock"

\* the race client: main and one goroutine take and release reader holds
\* and exclusive holds of one RWMutex, each releasing only its own hold;
\* the client stops acquiring when numberLocked has drifted up to MaxHold
RaceMay(t, op, m) ==
    /\ op \in {"Lock", "RLock"} => ~Holds(t, m) /\ numberLocked[m] < MaxHold
    /\ op = "Unlock" => mu[m].w = t

\* in the first client every goroutine creates its own lock, locks it once
\* and unlocks it
FirstMay(t, op, m) ==
    /\ m = t
    /\ op = "Lock" => mapIndex[t] = NoIndex
    /\ op = "Unlock" => mu[m].w = t

ClientMay(t, op, m) ==
    CASE client \in ChainClients -> ChainMay(client, t, op, m)
      [] client = "race" -> RaceMay(t, op, m)
      [] client = "first" -> FirstMay(t, op, m)
      [] client = "ordered" -> OrderedMay(t, op, m)
      [] client = "own" -> OwnMay(t, op, m)
      [] client = "caps" -> CapsMay(t, op, m)
      [] client = "try" -> TryMay(t, op, m)
      [] client = "switch" -> SwitchMay(t, op, m)
      [] OTHER -> TRUE

\* --------------------------------------------------------- thread state
\* routine.go: getRoutineIndex
getRoutineIndex(t) == mapIndex[t]

\* routine.go: newRoutine, called by a goroutine that has no index yet
newRoutine(t) ==
    IF mapIndex[t] # NoIndex
    THEN [rs |-> routines, mi |-> mapIndex, index |-> mapIndex[t], panic |-> FALSE]
    ELSE IF numberRoutines >= opts.maxRoutines
    THEN [rs |-> routines, mi |-> mapIndex, index |-> NoIndex, panic |-> TRUE]
    ELSE [rs |-> Append(routines, NewRoutineRecord(numberRoutines)),
          mi |-> [mapIndex EXCEPT ![t] = numberRoutines],
          index |-> numberRoutines, panic |-> FALSE]

\* a version of dependencyAlreadyExists that never finds the dependency
dependencyNeverExists(r, m) == FALSE

\* routine.go: dependencyAlreadyExists.  A dependency with the same lock and
\* holding set has the same key, so the bucket of the key holds it.
dependencyAlreadyExists(r, m) ==
    \E k \in 1..r.depCount :
        LET d == r.dependencies[k]
        IN  /\ d.mu = m
            /\ d.holdingCount = r.holdingCount
            /\ \A i \in 1..r.holdingCount : d.holdingSet[i] = r.holdingSet[i]

\* routine.go: updateLock, the routine after the call and whether it panics
updateLock(r, m) ==
    LET hc == r.holdingCount
        isNew == hc > 0 /\ ~dependencyAlreadyExists(r, m)
        withDep ==
            IF isNew
            THEN [r EXCEPT !.dependencies =
                               Append(@, newDependency(m, r.holdingSet, hc)),
                           !.depCount = @ + 1,
                           !.curDep = r.depCount + 1]
            ELSE r
    IN  IF isNew /\ r.depCount >= opts.maxDependencies
        THEN [r |-> r, panic |-> TRUE]
        ELSE IF hc >= opts.maxNumberOfDependentLocks
        THEN [r |-> withDep, panic |-> TRUE]
        ELSE [r |-> [withDep EXCEPT !.holdingSet = Append(@, m),
                                    !.holdingCount = @ + 1],
              panic |-> FALSE]

\* a version of updateTryLock that records the acquisition as updateLock does
updateTryLockAsLock(r, m) == updateLock(r, m)

\* routine.go: updateTryLock
updateTryLock(r, m) ==
    IF r.holdingCount >= opts.maxNumberOfDependentLocks
    THEN [r |-> r, panic |-> TRUE]
    ELSE [r |-> [r EXCEPT !.holdingSet = Append(@, m), !.holdingCount = @ + 1],
          panic |-> FALSE]

\* updateUnlock if the dependencies shared the array of the live holding
\* set: the splice shifts the entries the dependencies show
updateUnlockShared(r, m) ==
    LET occ == {i \in 1..r.holdingCount : r.holdingSet[i] = m}
    IN  IF occ = {} THEN r
        ELSE LET i == CHOOSE x \in occ : \A y \in occ : y <= x
                 hs == SubSeq(r.holdingSet, 1, i - 1)
                           \o SubSeq(r.holdingSet, i + 1, Len(r.holdingSet))
             IN  [r EXCEPT !.holdingSet = hs,
                           !.holdingCount = @ - 1,
                           !.dependencies =
                               [k \in 1..Len(@) |->
                                   [@[k] EXCEPT !.holdingSet =
                                       [x \in 1..Len(@) |->
                                           IF x <= Len(hs) THEN hs[x] ELSE 0]]]]

\* routine.go: updateUnlock: the topmost occurrence of m is cut out
updateUnlock(r, m) ==
    LET occ == {i \in 1..r.holdingCount : r.holdingSet[i] = m}
    IN  IF occ = {} THEN r
        ELSE LET i == CHOOSE x \in occ : \A y \in occ : y <= x
             IN  [r EXCEPT !.holdingSet =
                               SubSeq(@, 1, i - 1) \o SubSeq(@, i + 1, Len(@)),
                           !.holdingCount = @ - 1]

\* RWMutex.setRLock / Mutex.setRLock: the new isRLock
setRLock(m, routineIndex, value) ==
    IF kind[m] # "RWMutex" THEN isRLock
    ELSE IF value THEN [isRLock EXCEPT ![m] = @ \cup {routineIndex}]
    ELSE [isRLock EXCEPT ![m] = @ \ {routineIndex}]

\* routine.go: checkDoubleLocking: TRUE if it reports and exits
checkDoubleLocking(m, routineIndex, rLock) ==
    /\ isLockedRoutineIndex[m][routineIndex] # 0
    /\ ~(rLock /\ getRLock(m, routineIndex))

\* -------------------------------------------------------------- actions
Idle == [at |-> "idle", m |-> 0, rLock |-> FALSE, counted |-> FALSE]

\* what keeps the explored client finite
Bounded(t, m) ==
    LET r == RoutineAt(routines, mapIndex[t])
        i == IF mapIndex[t] = NoIndex THEN numberRoutines ELSE mapIndex[t]
    IN  /\ r.holdingCount < MaxHold
        /\ mu[m].r[t] < MaxHold
        /\ isLockedRoutineIndex[m][i] < MaxHold
        /\ (r.holdingCount > 0 /\ ~dependencyAlreadyExists(r, m)
                => r.depCount < MaxDeps)

\* os.Exit(2) after a report and the comprehensive detection
NoReason == [why |-> "none", t |-> 0, m |-> 0, rLock |-> FALSE]

Exit2(reason, rs, found) ==
    /\ phase' = "exit2"
    /\ exitReason' = reason
    /\ reports' = FindPotentialDeadlocks(rs)
    /\ alarm' = found

\* mutexInt.go: lockInt up to the deferred primitive lock
lockInt(t, m, rLock) ==
    /\ phase = "run"
    /\ t \in started
    /\ pc[t] = Idle
    /\ kind[m] # "none"
    /\ Bounded(t, m)
    /\ last' = NoCall
    /\ UNCHANGED <<cfgVars, numberLocked, mu, detVars>>
    /\ IF ~opts.activated
       THEN /\ pc' = [pc EXCEPT ![t] = [at |-> "lock", m |-> m, rLock |-> rLock,
                                        counted |-> FALSE]]
            /\ UNCHANGED <<regVars, isLockedRoutineIndex, isRLock, endVars>>
       ELSE IF ~opts.periodicDetection /\ ~opts.comprehensiveDetection
       THEN /\ pc' = [pc EXCEPT ![t] = [at |-> "lock", m |-> m, rLock |-> rLock,
                                        counted |-> TRUE]]
            /\ UNCHANGED <<regVars, isLockedRoutineIndex, isRLock, endVars>>
       ELSE LET reg == newRoutine(t)
                index == reg.index
            IN  IF reg.panic
                THEN /\ phase' = "panic"
                     /\ UNCHANGED <<regVars, isLockedRoutineIndex, isRLock, pc,
                                    exitReason, reports, alarm>>
                ELSE IF /\ opts.checkDoubleLocking
                        /\ numberLocked[m] # 0
                        /\ checkDoubleLocking(m, index, rLock)
                THEN /\ Exit2([why |-> "double", t |-> t, m |-> m, rLock |-> rLock],
                           reg.rs, <<>>)
                     /\ routines' = reg.rs
                     /\ mapIndex' = reg.mi
                     /\ UNCHANGED <<isLockedRoutineIndex, isRLock, pc>>
                ELSE LET tracked == NumGoroutine > 1
                         upd == IF tracked THEN updateLock(reg.rs[index + 1], m)
                                ELSE [r |-> reg.rs[index + 1], panic |-> FALSE]
                     IN  /\ isLockedRoutineIndex' =
                                [isLockedRoutineIndex EXCEPT ![m][index] = @ + 1]
                         /\ isRLock' = IF tracked THEN setRLock(m, index, rLock)
                                       ELSE isRLock
                         /\ routines' = [reg.rs EXCEPT ![index + 1] = upd.r]
                         /\ mapIndex' = reg.mi
                         /\ phase' = IF upd.panic THEN "panic" ELSE phase
                         /\ pc' = IF upd.panic THEN pc
                                  ELSE [pc EXCEPT ![t] =
                                            [at |-> "lock", m |-> m,
                                             rLock |-> rLock, counted |-> TRUE]]
                         /\ UNCHANGED <<exitReason, reports, alarm>>

\* Mutex.Lock / RWMutex.Lock
Lock(t, m) ==
    /\ ClientMay(t, "Lock", m)
    /\ lockInt(t, m, FALSE)

\* RWMutex.RLock
RLock(t, m) ==
    /\ kind[m] = "RWMutex"
    /\ ClientMay(t, "RLock", m)
    /\ lockInt(t, m, TRUE)

\* mutexInt.go: lockInt, the deferred function: the primitive lock returns
\* and numberLocked is incremented
LockAcquire(t) ==
    LET m == pc[t].m IN
    /\ phase = "run"
    /\ pc[t].at = "lock"
    /\ mu[m].w = 0
    /\ pc[t].rLock \/ \A u \in Threads : mu[m].r[u] = 0
    /\ mu' = IF pc[t].rLock THEN [mu EXCEPT ![m].r[t] = @ + 1]
             ELSE [mu EXCEPT ![m].w = t]
    /\ numberLocked' = IF pc[t].counted THEN [numberLocked EXCEPT ![m] = @ + 1]
                       ELSE numberLocked
    /\ pc' = [pc EXCEPT ![t] = Idle]
    /\ last' = NoCall
    /\ UNCHANGED <<cfgVars, regVars, isLockedRoutineIndex, isRLock, detVars, endVars>>

\* mutexInt.go: lockInt, the deferred function as the two memory accesses
\* of "*m.getNumberLocked() += 1": the primitive lock returns and
\* numberLocked is loaded.  Readers run this concurrently, and nothing
\* orders their accesses.
LockAcquireLoad(t) ==
    LET m == pc[t].m IN
    /\ phase = "run"
    /\ pc[t].at = "lock"
    /\ mu[m].w = 0
    /\ pc[t].rLock \/ \A u \in Threads : mu[m].r[u] = 0
    /\ mu' = IF pc[t].rLock THEN [mu EXCEPT ![m].r[t] = @ + 1]
             ELSE [mu EXCEPT ![m].w = t]
    /\ pc' = [pc EXCEPT ![t] = [at |-> "count", m |-> m, rLock |-> pc[t].rLock,
                                counted |-> pc[t].counted,
                                loaded |-> numberLocked[m]]]
    /\ last' = NoCall
    /\ UNCHANGED <<cfgVars, regVars, numberLocked, isLockedRoutineIndex, isRLock,
                   detVars, endVars>>

\* the store of the loaded value plus one
LockAcquireStore(t) ==
    LET m == pc[t].m IN
    /\ phase = "run"
    /\ pc[t].at = "count"
    /\ numberLocked' = IF pc[t].counted
                       THEN [numberLocked EXCEPT ![m] = pc[t].loaded + 1]
                       ELSE numberLocked
    /\ pc' = [pc EXCEPT ![t] = Idle]
    /\ last' = NoCall
    /\ UNCHANGED <<cfgVars, regVars, isLockedRoutineIndex, isRLock, mu, detVars,
                   endVars>>

\* mutexInt.go: tryLockInt when the primitive try-lock succeeds.  The index
\* found after the registration is local to the if-block; the routine that
\* is updated is routines[index] with the outer index, which is 0.
tryLockInt(t, m, rLock) ==
    /\ phase = "run"
    /\ t \in started
    /\ pc[t] = Idle
    /\ kind[m] # "none"
    /\ mu[m].w = 0
    /\ rLock \/ \A u \in Threads : mu[m].r[u] = 0
    /\ \A u \in Threads : ~(pc[u].at = "unlock" /\ pc[u].m = m)
    /\ RoutineAt(routines, 0).holdingCount < MaxHold
    /\ isLockedRoutineIndex[m][IF mapIndex[t] = NoIndex THEN numberRoutines
                                ELSE mapIndex[t]] < MaxHold
    /\ mu' = IF rLock THEN [mu EXCEPT ![m].r[t] = @ + 1] ELSE [mu EXCEPT ![m].w = t]
    /\ UNCHANGED <<cfgVars, detVars, pc, exitReason, reports, alarm>>
    /\ IF ~opts.activated
       THEN UNCHANGED <<regVars, numberLocked, isLockedRoutineIndex, isRLock, phase>>
       ELSE LET analysis == opts.periodicDetection \/ opts.comprehensiveDetection
                reg == IF analysis THEN newRoutine(t)
                       ELSE [rs |-> routines, mi |-> mapIndex,
                             index |-> mapIndex[t], panic |-> FALSE]
                index == reg.index
                outerIndex == 0
                tracked == analysis /\ NumGoroutine > 1
                upd == IF tracked THEN updateTryLock(reg.rs[outerIndex + 1], m)
                       ELSE [r |-> Idle, panic |-> FALSE]
            IN  IF reg.panic
                THEN /\ phase' = "panic"
                     /\ UNCHANGED <<regVars, numberLocked, isLockedRoutineIndex, isRLock>>
                ELSE /\ numberLocked' = [numberLocked EXCEPT ![m] = @ + 1]
                     /\ isLockedRoutineIndex' =
                            [isLockedRoutineIndex EXCEPT ![m][index] = @ + 1]
                     /\ mapIndex' = reg.mi
                     /\ phase' = IF upd.panic THEN "panic" ELSE phase
                     /\ IF tracked /\ ~upd.panic
                        THEN /\ isRLock' = setRLock(m, reg.rs[outerIndex + 1].index, rLock)
                             /\ routines' = [reg.rs EXCEPT ![outerIndex + 1] = upd.r]
                        ELSE /\ isRLock' = isRLock
                             /\ routines' = reg.rs

\* Mutex.TryLock / RWMutex.TryLock
TryLock(t, m) ==
    /\ ClientMay(t, "TryLock", m)
    /\ tryLockInt(t, m, FALSE)
    /\ Returned("TryLock", t, m, TRUE)

\* a version of tryLockIntFails that counts the lock as locked
tryLockIntFailsCounted(t, m, rLock) ==
    /\ phase = "run"
    /\ t \in started
    /\ pc[t] = Idle
    /\ kind[m] # "none"
    /\ mu[m].w # 0 \/ (~rLock /\ \E u \in Threads : mu[m].r[u] > 0)
    /\ numberLocked[m] < MaxHold
    /\ numberLocked' = [numberLocked EXCEPT ![m] = @ + 1]
    /\ UNCHANGED <<cfgVars, regVars, isLockedRoutineIndex, isRLock, mu, pc,
                   detVars, endVars>>

\* mutexInt.go: tryLockInt when the primitive try-lock returns false: both
\* blocks of bookkeeping are skipped
tryLockIntFails(t, m, rLock) ==
    /\ phase = "run"
    /\ t \in started
    /\ pc[t] = Idle
    /\ kind[m] # "none"
    /\ mu[m].w # 0 \/ (~rLock /\ \E u \in Threads : mu[m].r[u] > 0)
    /\ UNCHANGED <<cfgVars, regVars, lockVars, pc, detVars, endVars>>

\* Mutex.TryLock / RWMutex.TryLock returning false
TryLockFails(t, m) ==
    /\ ClientMay(t, "TryLock", m)
    /\ tryLockIntFails(t, m, FALSE)
    /\ Returned("TryLock", t, m, FALSE)

\* RWMutex.RTryLock: it calls tryLockInt(m, false)
RTryLock(t, m) ==
    /\ kind[m] = "RWMutex"
    /\ ClientMay(t, "RTryLock", m)
    /\ tryLockInt(t, m, FALSE)
    /\ Returned("RTryLock", t, m, TRUE)

\* RWMutex.RTryLock returning false
RTryLockFails(t, m) ==
    /\ kind[m] = "RWMutex"
    /\ ClientMay(t, "RTryLock", m)
    /\ tryLockIntFails(t, m, FALSE)
    /\ Returned("RTryLock", t, m, FALSE)

\* a check of numberLocked that never finds the lock unlocked
notLockedNever(m) == FALSE

\* mutexInt.go: unlockInt, "panic if lock was not locked"
notLocked(m) == numberLocked[m] = 0

\* Mutex.Unlock / RWMutex.Unlock / RWMutex.RUnlock up to the primitive
\* unlock: unlockInt with its deferred function
unlockCall(t, m, reader) ==
    /\ phase = "run"
    /\ t \in started
    /\ pc[t] = Idle
    /\ kind[m] # "none"
    /\ \A u \in Threads : ~(pc[u].at = "unlock" /\ pc[u].m = m /\ pc[u].rLock = reader)
    /\ isLockedRoutineIndex[m][mapIndex[t]] > 0 - MaxHold
    /\ last' = NoCall
    /\ UNCHANGED <<cfgVars, mapIndex, isRLock, mu, detVars, reports, alarm>>
    /\ exitReason' = IF opts.activated /\ notLocked(m)
                     THEN [why |-> "not locked", t |-> t, m |-> m, rLock |-> reader]
                     ELSE exitReason
    /\ LET index == getRoutineIndex(t)
           analysis == opts.periodicDetection \/ opts.comprehensiveDetection
           deferred ==
               /\ numberLocked' = [numberLocked EXCEPT ![m] = @ - 1]
               /\ isLockedRoutineIndex' =
                      [isLockedRoutineIndex EXCEPT ![m][index] = @ - 1]
           release ==
               pc' = [pc EXCEPT ![t] = [at |-> "unlock", m |-> m, rLock |-> reader,
                                        counted |-> FALSE]]
       IN  IF ~opts.activated
           THEN release /\ UNCHANGED <<routines, numberLocked, isLockedRoutineIndex, phase>>
           ELSE IF notLocked(m)
           THEN /\ phase' = "panic"
                /\ UNCHANGED <<routines, numberLocked, isLockedRoutineIndex, pc>>
           ELSE IF ~analysis
           THEN deferred /\ release /\ UNCHANGED <<routines, phase>>
           ELSE IF index = NoIndex
           THEN /\ deferred
                /\ phase' = "panic"
                /\ UNCHANGED <<routines, pc>>
           ELSE /\ routines' = [routines EXCEPT ![index + 1] = updateUnlock(@, m)]
                /\ deferred
                /\ release
                /\ UNCHANGED phase

\* an Unlock that decrements numberLocked whether or not the detector is
\* activated
UnlockAlwaysCounts(t, m) ==
    /\ mu[m].w # 0
    /\ ClientMay(t, "Unlock", m)
    /\ phase = "run"
    /\ t \in started
    /\ pc[t] = Idle
    /\ kind[m] # "none"
    /\ numberLocked[m] > 0 - MaxHold
    /\ numberLocked' = [numberLocked EXCEPT ![m] = @ - 1]
    /\ pc' = [pc EXCEPT ![t] = [at |-> "unlock", m |-> m, rLock |-> FALSE,
                                counted |-> FALSE]]
    /\ last' = NoCall
    /\ UNCHANGED <<cfgVars, regVars, isLockedRoutineIndex, isRLock, mu, detVars,
                   endVars>>

\* Mutex.Unlock / RWMutex.Unlock, called while the lock is write-locked
Unlock(t, m) ==
    /\ mu[m].w # 0
    /\ ClientMay(t, "Unlock", m)
    /\ unlockCall(t, m, FALSE)

\* Mutex.Unlock / RWMutex.Unlock, called while the lock is not write-locked
UnlockUnheld(t, m) ==
    /\ mu[m].w = 0
    /\ client = "misuse"
    /\ unlockCall(t, m, FALSE)

\* RWMutex.RUnlock, called by a goroutine that holds a read lock
RUnlock(t, m) ==
    /\ kind[m] = "RWMutex"
    /\ mu[m].r[t] > 0
    /\ ClientMay(t, "RUnlock", m)
    /\ unlockCall(t, m, TRUE)

\* m.mu.Unlock() / m.mu.RUnlock() at the end of Unlock / RUnlock
UnlockRelease(t) ==
    LET m == pc[t].m
        locked == IF pc[t].rLock THEN mu[m].r[t] > 0 ELSE mu[m].w # 0
    IN
    /\ phase = "run"
    /\ pc[t].at = "unlock"
    /\ mu' = IF ~locked THEN mu
             ELSE IF pc[t].rLock THEN [mu EXCEPT ![m].r[t] = @ - 1]
             ELSE [mu EXCEPT ![m].w = 0]
    /\ pc' = IF locked THEN [pc EXCEPT ![t] = Idle] ELSE pc
    /\ phase' = IF locked THEN phase ELSE "fatal"
    /\ last' = NoCall
    /\ UNCHANGED <<cfgVars, regVars, numberLocked, isLockedRoutineIndex, isRLock,
                   detVars, exitReason, reports, alarm>>

\* the client calls FindPotentialDeadlocks from main
FindPotentialDeadlocksCall ==
    /\ phase = "run"
    /\ pc[Main] = Idle
    /\ phase' = "finished"
    /\ reports' = FindPotentialDeadlocks(routines)
    /\ last' = NoCall
    /\ UNCHANGED <<cfgVars, regVars, lockVars, pc, detVars, exitReason, alarm>>

\* detector.go: periodicalDetection up to the call of detectionPeriodical
TickScan ==
    /\ phase = "run"
    /\ tickers > 0
    /\ tickPc = "idle"
    /\ IF NumGoroutine < 2
       THEN UNCHANGED detVars
       ELSE /\ lastHolding' = scanLastHolding(routines, lastHolding)
            /\ tickPc' = IF /\ scanSthNew(routines, lastHolding)
                            /\ scanNrThreadsHoldingLocks(routines, lastHolding) > 1
                         THEN "detect" ELSE "idle"
    /\ last' = NoCall
    /\ UNCHANGED <<cfgVars, regVars, lockVars, pc, endVars>>

\* detector.go: detectionPeriodical
TickDetect ==
    /\ phase = "run"
    /\ tickPc = "detect"
    /\ tickPc' = "idle"
    /\ LET found == detectionPeriodical(routines, lastHolding)
       IN  IF found = OutOfRange
           THEN /\ phase' = "panic"
                /\ UNCHANGED <<exitReason, reports, alarm>>
           ELSE IF found # <<>>
           THEN Exit2([NoReason EXCEPT !.why = "periodical"], routines, found)
           ELSE UNCHANGED endVars
    /\ last' = NoCall
    /\ UNCHANGED <<cfgVars, regVars, lockVars, pc, lastHolding>>

\* ---------------------------------------------------------------- setup
\* options.go: setActivatedAuto
setActivatedAuto(o) ==
    IF ~(o.periodicDetection \/ o.checkDoubleLocking \/ o.comprehensiveDetection)
    THEN [o EXCEPT !.activated = FALSE]
    ELSE [o EXCEPT !.activated = TRUE]

\* the late clients call setters at any time, the other clients only before
\* they create their first lock
SetterMay ==
    /\ client \notin ChainClients
    /\ client \in LateClients \/ ~initialized

\* a setter that does not look at initialized
SetterUnguarded(op, changed) ==
    /\ phase = "run"
    /\ SetterMay
    /\ opts' = changed
    /\ UNCHANGED <<client, initialized, tickers, kind, memoryPosition, started,
                   regVars, lockVars,
                   pc, detVars, endVars>>
    /\ Returned(op, Main, 0, TRUE)

\* options.go: what every setter does: it returns false and changes nothing
\* if the detector is initialized, else it stores the option and returns true
Setter(op, changed) ==
    /\ phase = "run"
    /\ SetterMay
    /\ opts' = IF initialized THEN opts ELSE changed
    /\ UNCHANGED <<client, initialized, tickers, kind, memoryPosition, started,
                   regVars, lockVars,
                   pc, detVars, endVars>>
    /\ Returned(op, Main, 0, ~initialized)

\* options.go: SetActivated
SetActivated(enable) ==
    Setter("SetActivated",
           [opts EXCEPT !.activated = enable,
                        !.checkDoubleLocking = TRUE,
                        !.periodicDetection = TRUE,
                        !.comprehensiveDetection = TRUE])

\* options.go: SetPeriodicDetection
SetPeriodicDetection(enable) ==
    Setter("SetPeriodicDetection",
           setActivatedAuto([opts EXCEPT !.periodicDetection = enable]))

\* options.go: SetComprehensiveDetection
SetComprehensiveDetection(enable) ==
    Setter("SetComprehensiveDetection",
           setActivatedAuto([opts EXCEPT !.comprehensiveDetection = enable]))

\* options.go: SetPeriodicDetectionTime
SetPeriodicDetectionTime(seconds) ==
    Setter("SetPeriodicDetectionTime",
           [opts EXCEPT !.periodicDetectionTime = seconds])

\* options.go: SetCollectCallStack
SetCollectCallStack(enable) ==
    Setter("SetCollectCallStack", [opts EXCEPT !.collectCallStack = enable])

\* options.go: SetCollectSingleLevelLockInformation
SetCollectSingleLevelLockInformation(enable) ==
    Setter("SetCollectSingleLevelLockInformation",
           [opts EXCEPT !.collectSingleLevelLockStack = enable])

\* options.go: SetDoubleLockingDetection
SetDoubleLockingDetection(enable) ==
    Setter("SetDoubleLockingDetection",
           setActivatedAuto([opts EXCEPT !.checkDoubleLocking = enable]))

\* options.go: SetMaxDependencies
SetMaxDependencies(number) ==
    Setter("SetMaxDependencies", [opts EXCEPT !.maxDependencies = number])

\* options.go: SetMaxNumberOfDependentLocks
SetMaxNumberOfDependentLocks(number) ==
    Setter("SetMaxNumberOfDependentLocks",
           [opts EXCEPT !.maxNumberOfDependentLocks = number])

\* options.go: SetMaxRoutines
SetMaxRoutines(number) ==
    Setter("SetMaxRoutines", [opts EXCEPT !.maxRoutines = number])

\* options.go: SetMaxCallStackSize
SetMaxCallStackSize(number) ==
    Setter("SetMaxCallStackSize", [opts EXCEPT !.maxCallStackSize = number])

\* initialize.go: initialize, called by the constructors while not
\* initialized.  routines = make([]routine, opts.maxRoutines) puts
\* zero-valued routines in the place of the registered ones; numberRoutines
\* and mapIndex stay as they are.
initialize ==
    /\ initialized' = TRUE
    /\ routines' = [i \in 1..numberRoutines |-> NewRoutineRecord(0)]
    /\ tickers' = IF opts.periodicDetection THEN tickers + 1 ELSE tickers

\* mutex.go: NewLock / rwMutex.go: NewRWLock for the next lock of the client
NewLockOfKind(m, k) ==
    /\ phase = "run"
    /\ kind[m] = "none"
    /\ ClientKind(client, m) = k
    /\ \A m2 \in Locks : m2 < m => kind[m2] # "none"
    /\ IF initialized
       THEN UNCHANGED <<initialized, routines, tickers>>
       ELSE initialize
    /\ kind' = [kind EXCEPT ![m] = k]
    /\ last' = NoCall
    /\ UNCHANGED <<client, opts, memoryPosition, started, mapIndex, lockVars, pc,
                   detVars, endVars>>

NewLock(m) == NewLockOfKind(m, "Mutex")

NewRWLock(m) == NewLockOfKind(m, "RWMutex")

\* main starts goroutine t with a go statement
Go(t) ==
    /\ phase = "run"
    /\ t \in ClientThreads(client) \ started
    /\ \A m \in Locks : kind[m] = ClientKind(client, m)
    /\ started' = started \cup {t}
    /\ last' = NoCall
    /\ UNCHANGED <<client, opts, initialized, tickers, kind, memoryPosition,
                   regVars, lockVars,
                   pc, detVars, endVars>>

\* ------------------------------------------------------- specifications
\* the addresses of the locks in a process whose allocator places them in
\* one span of the heap, 16 bytes apart
DefaultLayout == [m \in Locks |-> 49152 + 16 * m]

\* the process after package initialisation, running client c
InitOf(c) ==
    /\ client = c
    /\ memoryPosition = DefaultLayout
    /\ opts = DefaultOpts
    /\ initialized = FALSE
    /\ tickers = 0
    /\ kind = [m \in Locks |-> "none"]
    /\ started = {Main}
    /\ routines = <<>>
    /\ mapIndex = [t \in Threads |-> NoIndex]
    /\ numberLocked = [m \in Locks |-> 0]
    /\ isLockedRoutineIndex = [m \in Locks |-> [i \in Indices |-> 0]]
    /\ isRLock = [m \in Locks |-> {}]
    /\ mu = [m \in Locks |-> [w |-> 0, r |-> [t \in Threads |-> 0]]]
    /\ pc = [t \in Threads |-> Idle]
    /\ lastHolding = [i \in 0..NThreads |-> 0]
    /\ tickPc = "idle"
    /\ phase = "run"
    /\ exitReason = NoReason
    /\ reports = <<>>
    /\ alarm = <<>>
    /\ last = NoCall

\* client c after main has created its locks with the default options and
\* started its goroutines
InitRunWith(c, layout, o) ==
    /\ client = c
    /\ memoryPosition = layout
    /\ opts = o
    /\ initialized = TRUE
    /\ tickers = 1
    /\ kind = [m \in Locks |-> ClientKind(c, m)]
    /\ started = ClientThreads(c)
    /\ routines = <<>>
    /\ mapIndex = [t \in Threads |-> NoIndex]
    /\ numberLocked = [m \in Locks |-> 0]
    /\ isLockedRoutineIndex = [m \in Locks |-> [i \in Indices |-> 0]]
    /\ isRLock = [m \in Locks |-> {}]
    /\ mu = [m \in Locks |-> [w |-> 0, r |-> [t \in Threads |-> 0]]]
    /\ pc = [t \in Threads |-> Idle]
    /\ lastHolding = [i \in 0..NThreads |-> 0]
    /\ tickPc = "idle"
    /\ phase = "run"
    /\ exitReason = NoReason
    /\ reports = <<>>
    /\ alarm = <<>>
    /\ last = NoCall

InitRunAt(c, layout) == InitRunWith(c, layout, DefaultOpts)

InitRun(c) == InitRunAt(c, DefaultLayout)

\* the free, the own and the ordered client, from package initialisation
\* on; the client runs for less than one period of the ticker
Init == \E c \in {"free", "own", "ordered"} : InitOf(c)

Next ==
    \/ \E enable \in BOOLEAN : SetPeriodicDetection(enable)
    \/ \E m \in Locks : NewLock(m)
    \/ \E m \in Locks : NewRWLock(m)
    \/ \E t \in Threads : Go(t)
    \/ \E t \in Threads, m \in Locks : Lock(t, m)
    \/ \E t \in Threads, m \in Locks : RLock(t, m)
    \/ \E t \in Threads : LockAcquire(t)
    \/ \E t \in Threads, m \in Locks : TryLock(t, m)
    \/ \E t \in Threads, m \in Locks : Unlock(t, m)
    \/ \E t \in Threads, m \in Locks : RUnlock(t, m)
    \/ \E t \in Threads : UnlockRelease(t)
    \/ FindPotentialDeadlocksCall

Spec == Init /\ [][Next]_vars

\* the chain clients that end with a call of FindPotentialDeadlocks
InitChains == \E c \in {"abba", "ring", "rw", "gate"} : InitRun(c)

NextChains ==
    \/ \E t \in Threads, m \in Locks : Lock(t, m)
    \/ \E t \in Threads, m \in Locks : RLock(t, m)
    \/ \E t \in Threads : LockAcquire(t)
    \/ \E t \in Threads, m \in Locks : Unlock(t, m)
    \/ \E t \in Threads, m \in Locks : RUnlock(t, m)
    \/ \E t \in Threads : UnlockRelease(t)
    \/ TickScan
    \/ TickDetect
    \/ FindPotentialDeadlocksCall

SpecChains == InitChains /\ [][NextChains]_vars

\* long-running chain clients under the periodical detection: the ticker
\* fires again and again
InitLive == \E c \in {"abba", "stale"} : InitRun(c)

NextLive ==
    \/ \E t \in Threads, m \in Locks : Lock(t, m)
    \/ \E t \in Threads : LockAcquire(t)
    \/ \E t \in Threads, m \in Locks : Unlock(t, m)
    \/ \E t \in Threads : UnlockRelease(t)
    \/ TickScan
    \/ TickDetect

SpecLive ==
    /\ InitLive
    /\ [][NextLive]_vars
    /\ WF_vars(TickScan)
    /\ WF_vars(TickDetect)

\* ---------------------------------------------------------------- claims
\* FindPotentialDeadlocks has run: called by main or before os.Exit(2)
Reported == phase \in {"finished", "exit2"}

\* routine i has recorded a dependency on m with the holding set hs
HasDep(i, m, hs) ==
    \E k \in 1..routines[i + 1].depCount :
        /\ routines[i + 1].dependencies[k].mu = m
        /\ routines[i + 1].dependencies[k].holdingSet = hs

\* the locks the dependencies of a reported cycle acquire
CycleLocks(stack) == {DepEntry(routines, stack[k]).mu : k \in 1..Len(stack)}

\* two routines have recorded the acquisitions A,B and B,A of two mutexes
OppositeOrders(i, j, A, B) ==
    /\ i # j
    /\ A # B
    /\ kind[A] = "Mutex"
    /\ kind[B] = "Mutex"
    /\ HasDep(i, B, <<A>>)
    /\ HasDep(j, A, <<B>>)

\* C1: when one thread has locked A then B while holding A and another B
\* then A while holding B, A and B exclusive locks, FindPotentialDeadlocks
\* reports a cycle whose dependencies acquire A and B, whichever of the two
\* threads registered first.
C1_TwoLockCycleReported ==
    Reported =>
        \A i, j \in 0..numberRoutines - 1 : \A A, B \in Locks :
            OppositeOrders(i, j, A, B) =>
                \E k \in 1..Len(reports) : {A, B} \subseteq CycleLocks(reports[k])

\* C1 witness: the thread that took B then A registered first, main called
\* FindPotentialDeadlocks and the cycle is reported
C1_Witness ==
    /\ client = "abba"
    /\ phase = "finished"
    /\ mapIndex[3] = 0
    /\ mapIndex[2] = 1
    /\ OppositeOrders(1, 0, 1, 2)
    /\ \E k \in 1..Len(reports) : CycleLocks(reports[k]) = {1, 2}

\* the ring is complete: routine i of the k routines has locked L then L',
\* and the locks close a cycle over all routines
RingRecorded ==
    /\ client \in {"abba", "ring"}
    /\ numberRoutines = Cardinality(ClientThreads(client)) - 1
    /\ \A i \in 0..numberRoutines - 1 : routines[i + 1].depCount = 1

\* C2: a ring of k >= 2 threads, thread i locking L_i and then L_(i+1 mod k),
\* exclusive locks, is reported by FindPotentialDeadlocks exactly once, for
\* every assignment of registration indices to the threads.
C2_RingReportedOnce ==
    Reported /\ RingRecorded =>
        /\ Len(reports) = 1
        /\ Len(reports[1]) = numberRoutines
        /\ CycleLocks(reports[1]) = {m \in Locks : kind[m] # "none"}

\* C2 witness: the ring of three threads, registered in an order that is
\* not the order of the ring, and one report over the three locks
C2_Witness ==
    /\ client = "ring"
    /\ phase = "finished"
    /\ RingRecorded
    /\ mapIndex[2] = 0
    /\ mapIndex[4] = 1
    /\ mapIndex[3] = 2
    /\ Len(reports) = 1
    /\ CycleLocks(reports[1]) = {1, 2, 3}

\* C3 as the specification states it: with A an RWMutex that both threads
\* acquire only as readers (T1: RLock(A), Lock(B); T2: Lock(B), RLock(A)),
\* FindPotentialDeadlocks reports no cycle, whichever thread registered first.
C3_ReaderGateNoCycle ==
    client = "rw" /\ Reported => reports = <<>>

\* two dependencies of a reported cycle whose holding sets share a mutex
SharedExclusive(stack) ==
    \E a, b \in 1..Len(stack) :
        /\ a # b
        /\ \E x \in 1..DepEntry(routines, stack[a]).holdingCount :
               \E y \in 1..DepEntry(routines, stack[b]).holdingCount :
                   /\ DepEntry(routines, stack[a]).holdingSet[x]
                          = DepEntry(routines, stack[b]).holdingSet[y]
                   /\ kind[DepEntry(routines, stack[a]).holdingSet[x]] = "Mutex"

ThreadOf(i) == CHOOSE t \in Threads : mapIndex[t] = i

\* T2 holds lock 1 and is blocked in Lock(2), T3 holds lock 2 and is blocked
\* in Lock(1); main keeps running
Deadlocked ==
    /\ client = "abba"
    /\ mu[1].w = 2
    /\ pc[2] = [at |-> "lock", m |-> 2, rLock |-> FALSE, counted |-> TRUE]
    /\ mu[2].w = 3
    /\ pc[3] = [at |-> "lock", m |-> 1, rLock |-> FALSE, counted |-> TRUE]

\* C6 as the specification states it: once T1 holds A and is blocked in
\* Lock(B) while T2 holds B and is blocked in Lock(A), the ticker firing
\* again and again, the periodical detector eventually reports the deadlock
\* and the process exits with status 2, wherever the ticks fall.
C6_LiveDeadlockDetected ==
    Deadlocked ~> (phase = "exit2" /\ exitReason.why = "periodical")

\* goroutine t is blocked in a Lock on a lock held by another goroutine of
\* the routines in rs
Wedged(t, rs) ==
    /\ pc[t].at = "lock"
    /\ \E i \in rs : ThreadOf(i) # t /\ Holds(ThreadOf(i), pc[t].m)

\* C7 as the specification states it: whenever the periodical detector
\* terminates the process, every thread on the found cycle is blocked
\* acquiring a lock that another thread of the cycle holds.
C7_AlarmsAreReal ==
    phase = "exit2" /\ exitReason.why = "periodical" =>
        \A k \in 1..Len(alarm) :
            Wedged(ThreadOf(alarm[k].r), {alarm[j].r : j \in 1..Len(alarm)})

\* C5 as the specification states it: when every thread takes its locks
\* (Lock and successful TryLock) only in increasing order of one total order
\* and releases its own locks, FindPotentialDeadlocks reports no cycle.
C5_OrderedNoCycle ==
    client = "ordered" /\ Reported => reports = <<>>

\* C8 as the specification states it: the double-lock report and the exit
\* are triggered only by a thread that itself holds the handle at that
\* moment, in every interleaving of Lock, TryLock and Unlock by any threads.
C8_DoubleLockOnlyReentry ==
    exitReason.why = "double" => Holds(exitReason.t, exitReason.m)

\* goroutine t waits at the primitive lock of a handle it already holds,
\* and not both the hold and the call are reader acquisitions
ReentryAtPrimitive(t) ==
    /\ pc[t].at = "lock"
    /\ Holds(t, pc[t].m)
    /\ ~(pc[t].rLock /\ mu[pc[t].m].w # t)

\* C9 as the specification states it: with the double-lock check and at
\* least one analysis enabled, a thread calling Lock on a handle it already
\* holds, not both holds reader acquisitions, never reaches the primitive
\* lock; stated for the client whose goroutines unlock only what they hold.
C9_ReentryCaught ==
    /\ client = "own"
    /\ opts.activated
    /\ opts.checkDoubleLocking
    /\ opts.periodicDetection \/ opts.comprehensiveDetection
    => \A t \in Threads : ~ReentryAtPrimitive(t)

\* C10 as the specification states it: RLock by a thread that holds the
\* RWMutex through RLock produces no double-lock report and no exit, also
\* when the first RLock happened while only one goroutine existed.
C10_ReaderReentrySilent ==
    exitReason.why = "double" /\ exitReason.rLock =>
        ~(/\ mu[exitReason.m].r[exitReason.t] > 0
          /\ mu[exitReason.m].w # exitReason.t)

\* ------------------------------------------- option switches and locks
\* the switch client chooses the detections with the setters, creates one
\* RWMutex, starts a goroutine and then locks and unlocks
InitSwitch == InitOf("switch")

NextSwitch ==
    \/ \E enable \in BOOLEAN : SetActivated(enable)
    \/ \E enable \in BOOLEAN : SetPeriodicDetection(enable)
    \/ \E enable \in BOOLEAN : SetComprehensiveDetection(enable)
    \/ \E enable \in BOOLEAN : SetDoubleLockingDetection(enable)
    \/ \E m \in Locks : NewRWLock(m)
    \/ \E t \in Threads : Go(t)
    \/ \E t \in Threads, m \in Locks : Lock(t, m)
    \/ \E t \in Threads, m \in Locks : RLock(t, m)
    \/ \E t \in Threads : LockAcquire(t)
    \/ \E t \in Threads, m \in Locks : TryLock(t, m)
    \/ \E t \in Threads, m \in Locks : TryLockFails(t, m)
    \/ \E t \in Threads, m \in Locks : RTryLock(t, m)
    \/ \E t \in Threads, m \in Locks : RTryLockFails(t, m)
    \/ \E t \in Threads, m \in Locks : Unlock(t, m)
    \/ \E t \in Threads, m \in Locks : RUnlock(t, m)
    \/ \E t \in Threads : UnlockRelease(t)

SpecSwitch == InitSwitch /\ [][NextSwitch]_vars

\* C11 as the specification states it: whenever checkDoubleLocking is
\* enabled and the detector is activated, a thread calling Lock on a handle
\* it holds exclusively is reported and never reaches the primitive lock,
\* for every setting of periodicDetection and comprehensiveDetection.
C11_DoubleLockFollowsOption ==
    opts.activated /\ opts.checkDoubleLocking =>
        \A t \in Threads :
            ~(pc[t].at = "lock" /\ ~pc[t].rLock /\ mu[pc[t].m].w = t)

\* ------------------------------------------------------------ try-locks
\* the try client: main and one goroutine work with an RWMutex and a Mutex
\* under the default options
InitTry == InitRun("try")

NextTry ==
    \/ \E t \in Threads, m \in Locks : Lock(t, m)
    \/ \E t \in Threads, m \in Locks : RLock(t, m)
    \/ \E t \in Threads : LockAcquire(t)
    \/ \E t \in Threads, m \in Locks : TryLock(t, m)
    \/ \E t \in Threads, m \in Locks : TryLockFails(t, m)
    \/ \E t \in Threads, m \in Locks : RTryLock(t, m)
    \/ \E t \in Threads, m \in Locks : RTryLockFails(t, m)
    \/ \E t \in Threads, m \in Locks : Unlock(t, m)
    \/ \E t \in Threads, m \in Locks : RUnlock(t, m)
    \/ \E t \in Threads : UnlockRelease(t)

SpecTry == InitTry /\ [][NextTry]_vars

\* the step is a TryLock or RTryLock that returns true
TryLockSucceeds == last'.op \in {"TryLock", "RTryLock"} /\ last'.ret

\* the step is a call of Unlock or RUnlock up to the primitive unlock
UnlockCalled == \E t \in Threads : pc[t] = Idle /\ pc'[t].at = "unlock"

\* the lock trees and the current dependencies are those before the step
SameDependencies ==
    /\ Len(routines') >= Len(routines)
    /\ \A i \in 1..Len(routines') :
           IF i <= Len(routines)
           THEN /\ routines'[i].dependencies = routines[i].dependencies
                /\ routines'[i].depCount = routines[i].depCount
                /\ routines'[i].curDep = routines[i].curDep
           ELSE routines'[i].depCount = 0

\* C12 as the specification states it: a successful TryLock or RTryLock and
\* an Unlock never add a Dependency to the lock tree of any thread and never
\* change the current dependency of any thread; the number of dependencies
\* is the same before and after.
C12_TryLockAddsNoDependency ==
    [][TryLockSucceeds \/ UnlockCalled => SameDependencies]_vars

\* a TryLock has just succeeded while a lock is held and a lock tree has a
\* dependency
C12_Witness ==
    /\ client = "try"
    /\ last.op = "TryLock"
    /\ last.ret
    /\ RoutineAt(routines, 0).holdingCount >= 2
    /\ \E i \in 1..Len(routines) : routines[i].depCount > 0

\* the primitive of lock m cannot be write-locked without waiting
PrimitiveBusy(m) == mu[m].w # 0 \/ \E u \in Threads : mu[m].r[u] > 0

\* C13 as the specification states it: when the primitive try-lock returns
\* false, TryLock returns false and numberLocked, isLockedRoutineIndex, the
\* reader flags, the registry of routines, every routine (holdingSet,
\* holdingCount, dependencies, curDep) and the primitive are unchanged.
C13_FailedTryLockTouchesNothing ==
    [][last'.op = "TryLock" /\ PrimitiveBusy(last'.m) =>
           /\ ~last'.ret
           /\ UNCHANGED <<regVars, lockVars, pc, endVars>>]_vars

\* a goroutine that is not registered has just called TryLock on a lock that
\* the registered goroutine holds, and got false
C13_Witness ==
    /\ last.op = "TryLock"
    /\ ~last.ret
    /\ mapIndex[last.t] = NoIndex
    /\ numberLocked[last.m] > 0
    /\ Len(routines) > 0

\* lock m is read-locked by a goroutine other than t and not write-locked
HeldByOtherReadersOnly(t, m) ==
    /\ mu[m].w = 0
    /\ mu[m].r[t] = 0
    /\ \E u \in Threads \ {t} : mu[m].r[u] > 0

\* C14 as the specification states it: RTryLock on an RWMutex that only
\* other threads hold, all of them as readers, returns true, takes a shared
\* hold (one that RUnlock releases) and sets the reader flag of the calling
\* thread for the handle.
C14_RTryLockIsReaderTryLock ==
    [][last'.op = "RTryLock" /\ HeldByOtherReadersOnly(last'.t, last'.m) =>
           /\ last'.ret
           /\ mu'[last'.m].r[last'.t] = 1
           /\ mu'[last'.m].w = 0
           /\ mapIndex'[last'.t] \in isRLock'[last'.m]]_vars

\* the locks of the first n elements of chain ch
ChainLocks(ch, n) == [i \in 1..n |-> ch[i].m]

\* the dependencies goroutine t of client c records when it executes each of
\* its nested acquisition patterns once
DependenciesOfOnce(c, t) ==
    UNION {{newDependency(ch[k].m, ChainLocks(ch, k - 1), k - 1) :
               k \in 2..Len(ch)} : ch \in Chains(c, t)}

\* C15 as the specification states it: however often a thread executes its
\* nested acquisition patterns, its lock tree holds the Dependency objects
\* of one execution and no more: depCount counts them, no Dependency occurs
\* twice, and an acquisition with an (acquired, holdingSet) pair that is
\* already recorded adds nothing.
C15_DedupIdempotent ==
    \A t \in Threads :
        mapIndex[t] # NoIndex =>
            LET r == routines[mapIndex[t] + 1]
            IN  /\ r.depCount = Len(r.dependencies)
                /\ \A k \in 1..r.depCount :
                       r.dependencies[k] \in DependenciesOfOnce(client, t)
                /\ \A k, l \in 1..r.depCount :
                       r.dependencies[k] = r.dependencies[l] => k = l

\* T2 of the gate client has recorded both dependencies of its pattern and
\* is executing the pattern again: it holds the gate lock and lock 1
C15_Witness ==
    /\ client = "gate"
    /\ mapIndex[2] # NoIndex
    /\ routines[mapIndex[2] + 1].depCount = 2
    /\ routines[mapIndex[2] + 1].holdingSet = <<3, 1>>
    /\ pc[2] = Idle

\* ------------------------------------------- three threads and the ticker
\* the ring client runs on under the periodical detection
InitRing == InitRun("ring")

SpecRing == InitRing /\ [][NextLive]_vars

\* C16 as the specification states it: when the periodical detector reports
\* a cycle and exits, no thread on the cycle, bottom, middle or top, has
\* changed the top of its holding set since the ticker recorded it at the
\* start of the tick.
C16_StableCycleOnly ==
    phase = "exit2" /\ exitReason.why = "periodical" =>
        \A k \in 1..Len(alarm) :
            lastHolding[alarm[k].r] = TopHolding(routines[alarm[k].r + 1])

\* ------------------------------------------------------------ capacities
\* the caps client sets the capacities, creates two Mutexes and starts a
\* goroutine; main locks with Lock, the goroutine with TryLock, and each
\* unlocks only what it holds
InitCaps == InitOf("caps")

NextCaps ==
    \/ \E number \in 1..MaxCap : SetMaxDependencies(number)
    \/ \E number \in 1..MaxCap : SetMaxNumberOfDependentLocks(number)
    \/ \E number \in 1..MaxCap : SetMaxRoutines(number)
    \/ \E m \in Locks : NewLock(m)
    \/ \E t \in Threads : Go(t)
    \/ \E t \in Threads, m \in Locks : Lock(t, m)
    \/ \E t \in Threads : LockAcquire(t)
    \/ \E t \in Threads, m \in Locks : TryLock(t, m)
    \/ \E t \in Threads, m \in Locks : Unlock(t, m)
    \/ \E t \in Threads : UnlockRelease(t)

SpecCaps == InitCaps /\ [][NextCaps]_vars

\* no routine and no registry is above its capacity
WithinCaps(rs) ==
    /\ Len(rs) <= opts.maxRoutines
    /\ \A i \in 1..Len(rs) :
           /\ rs[i].holdingCount <= opts.maxNumberOfDependentLocks
           /\ rs[i].depCount <= opts.maxDependencies

\* the locks goroutine t holds, the one it is waiting for included
HeldOrAwaited(t) == HeldCount(t) + IF pc[t].at = "lock" THEN 1 ELSE 0

\* a capacity is used up: the registry is full and a goroutine is not yet
\* registered, or a goroutine holds maxNumberOfDependentLocks locks, or a
\* lock tree has maxDependencies dependencies
CapReached ==
    \/ /\ numberRoutines >= opts.maxRoutines
       /\ \E t \in started : mapIndex[t] = NoIndex
    \/ \E t \in started : HeldOrAwaited(t) >= opts.maxNumberOfDependentLocks
    \/ \E i \in 1..Len(routines) : routines[i].depCount >= opts.maxDependencies

\* C17 as the specification states it: in every reachable state holdingCount
\* is at most maxNumberOfDependentLocks, depCount at most maxDependencies
\* and the number of registered threads at most maxRoutines, and the process
\* is aborted for a capacity only by an operation that would exceed it:
\* never while no thread holds that many locks.
C17_CapacityFatality ==
    [][/\ WithinCaps(routines')
       /\ phase = "run" /\ phase' = "panic" => CapReached]_vars

\* ---------------------------------------------------- setters at any time
\* the late clients call the option setters before and after they create
\* their lock with NewLock (late) or NewRWLock (laterw)
InitOpts == \E c \in LateClients : InitOf(c)

\* the numbers the late clients pass to the setters of numeric options
CapValues == {1, MaxCap}

NextOpts ==
    \/ \E enable \in BOOLEAN : SetActivated(enable)
    \/ \E enable \in BOOLEAN : SetPeriodicDetection(enable)
    \/ \E enable \in BOOLEAN : SetComprehensiveDetection(enable)
    \/ \E seconds \in CapValues : SetPeriodicDetectionTime(seconds)
    \/ \E enable \in BOOLEAN : SetCollectCallStack(enable)
    \/ \E enable \in BOOLEAN : SetCollectSingleLevelLockInformation(enable)
    \/ \E enable \in BOOLEAN : SetDoubleLockingDetection(enable)
    \/ \E number \in CapValues : SetMaxDependencies(number)
    \/ \E number \in CapValues : SetMaxNumberOfDependentLocks(number)
    \/ \E number \in CapValues : SetMaxRoutines(number)
    \/ \E number \in CapValues : SetMaxCallStackSize(number)
    \/ \E m \in Locks : NewLock(m)
    \/ \E m \in Locks : NewRWLock(m)

SpecOpts == InitOpts /\ [][NextOpts]_vars

\* the option setters of options.go
SetterNames ==
    {"SetActivated", "SetPeriodicDetection", "SetComprehensiveDetection",
     "SetPeriodicDetectionTime", "SetCollectCallStack",
     "SetCollectSingleLevelLockInformation", "SetDoubleLockingDetection",
     "SetMaxDependencies", "SetMaxNumberOfDependentLocks", "SetMaxRoutines",
     "SetMaxCallStackSize"}

\* a lock has been created with NewLock or NewRWLock
LockCreated == \E m \in Locks : kind[m] # "none"

\* C18 as the specification states it: once NewLock or NewRWLock has run,
\* every option setter returns false and leaves every option unchanged;
\* before that, every setter returns true.
C18_OptionsFrozen ==
    [][last'.op \in SetterNames =>
           /\ last'.ret = ~LockCreated
           /\ LockCreated => opts' = opts]_vars

\* a capacity was set before the lock was created, and the same setter has
\* just been refused
C18_Witness ==
    /\ LockCreated
    /\ opts.maxRoutines # DefaultMaxRoutines
    /\ last.op = "SetMaxRoutines"
    /\ ~last.ret

\* C19 as the specification states it: while activated is false, Lock,
\* RLock, TryLock, RTryLock, Unlock and RUnlock only call the primitive:
\* numberLocked, isLockedRoutineIndex, the reader flags, the registry of
\* routines and every routine are unchanged by every step.
C19_MasterSwitchBypass ==
    [][~opts.activated =>
           UNCHANGED <<numberLocked, isLockedRoutineIndex, isRLock, routines,
                       mapIndex>>]_vars

\* with the detector switched off a goroutine has just taken the lock with
\* TryLock while the other goroutine waits in Lock, and nothing is counted
C19_Witness ==
    /\ ~opts.activated
    /\ last.op = "TryLock"
    /\ last.ret
    /\ mu[last.m].w = last.t
    /\ \E t \in Threads : pc[t].at = "lock" /\ pc[t].m = last.m
    /\ numberLocked[last.m] = 0

\* the options as SetActivated(false) leaves them; the other setters switch
\* activated off only together with all three detections
SwitchedOff ==
    /\ ~opts.activated
    /\ opts.periodicDetection
    /\ opts.comprehensiveDetection
    /\ opts.checkDoubleLocking

\* C20 as the specification states it: after a successful SetActivated(false)
\* a successful call of any other option setter leaves activated false; only
\* SetActivated(true) switches the detector on again.
C20_SwitchedOffStaysOff ==
    [][SwitchedOff /\ last'.op \in SetterNames \ {"SetActivated"} =>
           ~opts'.activated]_vars

\* ------------------------------------------------------ usage errors
\* the misuse client: main and one goroutine call Lock, TryLock and Unlock
\* on one Mutex in any order, Unlock of the unlocked Mutex included
InitMisuse == InitRun("misuse")

NextMisuse ==
    \/ \E t \in Threads, m \in Locks : Lock(t, m)
    \/ \E t \in Threads : LockAcquire(t)
    \/ \E t \in Threads, m \in Locks : TryLock(t, m)
    \/ \E t \in Threads, m \in Locks : Unlock(t, m)
    \/ \E t \in Threads, m \in Locks : UnlockUnheld(t, m)
    \/ \E t \in Threads : UnlockRelease(t)

SpecMisuse == InitMisuse /\ [][NextMisuse]_vars

\* C21 as the specification states it: with the detector activated, Unlock
\* on a handle whose numberLocked is 0 aborts with the diagnostic, and it
\* does so before the primitive, numberLocked, isLockedRoutineIndex or any
\* routine is changed; no Unlock of such a handle gets as far as the
\* primitive unlock.
C21_UnlockOfUnlockedFatal ==
    [][/\ exitReason'.why = "not locked" /\ exitReason.why = "none" =>
              /\ phase' = "panic"
              /\ numberLocked[exitReason'.m] = 0
              /\ UNCHANGED <<regVars, lockVars, pc>>
       /\ \A t \in Threads :
              opts.activated /\ pc[t] = Idle /\ pc'[t].at = "unlock" =>
                  numberLocked[pc'[t].m] # 0]_vars

\* the process was aborted by an Unlock of the unlocked Mutex after the
\* Mutex had been locked and unlocked by a registered goroutine
C21_Witness ==
    /\ client = "misuse"
    /\ phase = "panic"
    /\ exitReason.why = "not locked"
    /\ mu[exitReason.m].w = 0
    /\ Len(routines) > 0

\* ------------------------------------------- order of the bookkeeping
\* the number of holds of m in the primitive
PrimitiveHolds(l, m) ==
    (IF l[m].w # 0 THEN 1 ELSE 0)
    + Cardinality({<<t, k>> \in Threads \X (1..MaxHold + 1) : l[m].r[t] >= k})

\* goroutine t is registered and blocked inside the primitive lock of m
BlockedIn(t, m) ==
    /\ pc[t].at = "lock"
    /\ pc[t].m = m
    /\ mapIndex[t] # NoIndex

\* C22 as the specification states it: with analysis enabled and more than
\* one goroutine running, whenever a goroutine is blocked inside the
\* primitive lock of m, m is the top of its holding set and, if the
\* acquisition is nested, the dependency on m under the locks below it is
\* in its lock tree; numberLocked grows only in a step that acquires the
\* primitive.
C22_LockBookkeepingFirst ==
    [][/\ \A t \in Threads, m \in Locks :
              BlockedIn(t, m) /\ NumGoroutine > 1
              /\ (opts.periodicDetection \/ opts.comprehensiveDetection) =>
                  LET r == RoutineAt(routines, mapIndex[t]) IN
                  /\ TopHolding(r) = m
                  /\ r.holdingCount >= 2 =>
                         HasDep(mapIndex[t], m,
                                SubSeq(r.holdingSet, 1, r.holdingCount - 1))
       /\ \A m \in Locks :
              numberLocked'[m] > numberLocked[m] =>
                  PrimitiveHolds(mu', m) > PrimitiveHolds(mu, m)]_vars

\* goroutine t has finished unlockInt for m and has not yet called the
\* primitive unlock
UnlockPending(t, m) == pc[t].at = "unlock" /\ pc[t].m = m

\* C23 as the specification states it: on Unlock and RUnlock the primitive
\* unlock comes before the bookkeeping, so in a step that removes m from a
\* holding set or decrements numberLocked[m] or isLockedRoutineIndex of m,
\* the primitive unlock of that call is not still to come.
C23_PrimitiveUnlockFirst ==
    [][\A t \in Threads, m \in Locks :
           ~UnlockPending(t, m) /\ UnlockPending(t, m)' =>
               /\ numberLocked'[m] = numberLocked[m]
               /\ isLockedRoutineIndex'[m] = isLockedRoutineIndex[m]
               /\ routines' = routines]_vars

\* C24 as the specification states it: for every lock m and routine index
\* i, isLockedRoutineIndex[i] of m is positive exactly if the goroutine
\* with index i holds m, and it is never negative.
C24_HeldByThreadExact ==
    \A m \in Locks :
        /\ \A i \in Indices : isLockedRoutineIndex[m][i] >= 0
        /\ \A t \in Threads :
               mapIndex[t] # NoIndex =>
                   (isLockedRoutineIndex[m][mapIndex[t]] > 0 <=> Holds(t, m))

\* the locks in the holding set of a dependency
DepLocks(d) == {d.holdingSet[k] : k \in 1..d.holdingCount}

\* C25 as the specification states it: when a dependency d is recorded in
\* the lock tree of goroutine t, t itself holds exactly the locks of
\* d.holdingSet and is acquiring d.mu; no lock acquired only by another
\* goroutine is in d.holdingSet.
C25_DependencyProvenance ==
    [][\A t \in Threads :
           LET before == RoutineAt(routines, mapIndex'[t])
               after == RoutineAt(routines', mapIndex'[t])
           IN  mapIndex'[t] # NoIndex /\ after.depCount > before.depCount =>
                   LET d == after.dependencies[after.depCount] IN
                   /\ DepLocks(d) = {m \in Locks : Holds(t, m)}
                   /\ pc'[t].at = "lock"
                   /\ pc'[t].m = d.mu]_vars

\* the number of entries of m in the live part of the holding set of r
Occurrences(r, m) ==
    Cardinality({k \in 1..r.holdingCount : r.holdingSet[k] = m})

\* the reader acquisitions of m by goroutine t, the one it waits for included
ReaderAcquisitions(t, m) ==
    mu[m].r[t] + (IF pc[t].at = "lock" /\ pc[t].m = m /\ pc[t].rLock THEN 1 ELSE 0)

\* C26 as the specification states it: for every routine, holdingCount is
\* not negative, the live part of the holding set has no empty slot, and
\* its entries are pairwise distinct except for an RWMutex all of whose
\* duplicate entries are reader acquisitions by the goroutine of the routine.
C26_HoldingSetWellFormed ==
    \A t \in Threads :
        mapIndex[t] # NoIndex =>
            LET r == RoutineAt(routines, mapIndex[t]) IN
            /\ r.holdingCount >= 0
            /\ r.holdingCount <= Len(r.holdingSet)
            /\ \A k \in 1..r.holdingCount : r.holdingSet[k] \in Locks
            /\ \A m \in Locks :
                   Occurrences(r, m) >= 2 =>
                       /\ kind[m] = "RWMutex"
                       /\ Occurrences(r, m) <= ReaderAcquisitions(t, m)

\* the part of a routine the lock operations maintain
ThreadState(r) == <<r.holdingSet, r.holdingCount, r.dependencies, r.curDep>>

\* goroutine t executes the step: it enters or leaves a lock operation, or
\* its TryLock returns
Acting(t) == pc'[t] # pc[t] \/ last'.t = t

\* C27 as the specification states it: in every step, the only routine
\* whose holdingSet, holdingCount, dependencies or curDep changes is the one
\* registered for the goroutine that executes the operation; the detectors
\* change none.
C27_SingleWriter ==
    [][\A i \in 0..NThreads - 1 :
           ThreadState(RoutineAt(routines', i)) # ThreadState(RoutineAt(routines, i)) =>
               \E t \in Threads : mapIndex'[t] = i /\ Acting(t)]_vars

\* C28 as the specification states it: when TryLock(m) of goroutine t
\* returns true with analysis enabled and more than one goroutine running,
\* m is the top of the holding set of t, the holdingCount of t has grown by
\* one, isLockedRoutineIndex of t and numberLocked of m have grown by one,
\* and the reader flag of t for m is the reader mode of the call, false.
C28_TryLockEffect ==
    [][last'.op = "TryLock" /\ last'.ret /\ NumGoroutine > 1
       /\ (opts.periodicDetection \/ opts.comprehensiveDetection) =>
           LET t == last'.t
               m == last'.m
               i == mapIndex'[t]
           IN  /\ i # NoIndex
               /\ TopHolding(RoutineAt(routines', i)) = m
               /\ RoutineAt(routines', i).holdingCount
                      = RoutineAt(routines, i).holdingCount + 1
               /\ isLockedRoutineIndex'[m][i] = isLockedRoutineIndex[m][i] + 1
               /\ numberLocked'[m] = numberLocked[m] + 1
               /\ i \notin isRLock'[m]]_vars

\* the reader flag of goroutine t for m
ReaderFlag(t, m) == mapIndex[t] # NoIndex /\ getRLock(m, mapIndex[t])

\* C29 as the specification states it: for every RWMutex m and goroutine t
\* that holds m, the reader flag of t is true exactly if the hold is a
\* reader acquisition; for a Mutex the flag is always false.
C29_ReaderFlagMatchesHold ==
    \A t \in Threads, m \in Locks :
        /\ kind[m] = "RWMutex" /\ Holds(t, m) =>
               (ReaderFlag(t, m) <=> mu[m].r[t] > 0)
        /\ kind[m] = "Mutex" => ~ReaderFlag(t, m)

\* ------------------------------------------- mode of recorded holds
\* the mode client: T2 locks A exclusively and B under it, and on another
\* occasion read-locks A; T3 locks B and read-locks A under it
InitMode == InitRun("mode")

NextMode ==
    \/ \E t \in Threads, m \in Locks : Lock(t, m)
    \/ \E t \in Threads, m \in Locks : RLock(t, m)
    \/ \E t \in Threads : LockAcquire(t)
    \/ \E t \in Threads, m \in Locks : Unlock(t, m)
    \/ \E t \in Threads, m \in Locks : RUnlock(t, m)
    \/ \E t \in Threads : UnlockRelease(t)
    \/ FindPotentialDeadlocksCall

SpecMode == InitMode /\ [][NextMode]_vars

\* the mode in which goroutine t held entry x of the holding set of its
\* dependency d when it recorded d, by the chain of the client that records d
RecordedReader(t, d, x) ==
    \E ch \in Chains(client, t) :
        \E n \in 1..Len(ch) :
            /\ ch[n].m = d.mu
            /\ x < n
            /\ ch[x].m = d.holdingSet[x]
            /\ ch[x].rLock

\* C30 as the specification states it: the mode isChain and isCycleChain
\* use for a lock in the holding set of a dependency d of goroutine t is the
\* mode in which t held the lock when d was recorded, whatever t acquired
\* later; so the opposite orders of the mode client, recorded with A held
\* exclusively, are reported as a cycle.
C30_RecordedModeJudged ==
    /\ \A t \in Threads :
           mapIndex[t] # NoIndex =>
               LET r == RoutineAt(routines, mapIndex[t]) IN
               \A k \in 1..r.depCount :
                   \A x \in 1..r.dependencies[k].holdingCount :
                       getRLock(r.dependencies[k].holdingSet[x], mapIndex[t])
                           <=> RecordedReader(t, r.dependencies[k], x)
    /\ client = "mode" /\ phase = "finished"
       /\ numberRoutines = 2
       /\ (\E i, j \in 0..1 : HasDep(i, 2, <<1>>) /\ HasDep(j, 1, <<2>>)) =>
           reports # <<>>

\* ------------------------------------------------- numberLocked
InitRace == InitRun("race")

NextRace ==
    \/ \E t \in Threads, m \in Locks : Lock(t, m)
    \/ \E t \in Threads, m \in Locks : RLock(t, m)
    \/ \E t \in Threads : LockAcquireLoad(t)
    \/ \E t \in Threads : LockAcquireStore(t)
    \/ \E t \in Threads, m \in Locks : Unlock(t, m)
    \/ \E t \in Threads, m \in Locks : RUnlock(t, m)
    \/ \E t \in Threads : UnlockRelease(t)

SpecRace == InitRace /\ [][NextRace]_vars

\* no call on lock m is in progress
Quiet(m) == \A t \in Threads : pc[t].m # m

\* C31 as the specification states it: whenever no call on m is in
\* progress, numberLocked of m is the number of holds of m, each reader
\* counted; and Unlock or RUnlock by a goroutine that holds m never aborts
\* with the "not locked" error.
C31_HoldCountExact ==
    /\ \A m \in Locks : Quiet(m) => numberLocked[m] = PrimitiveHolds(mu, m)
    /\ exitReason.why = "not locked" => ~Holds(exitReason.t, exitReason.m)

\* ------------------------------------------- the chain predicates alone
\* The judge client has run and left lock trees behind: three goroutines
\* (main and two others, routines 0 to 2) have each recorded one dependency
\* over an RWMutex (lock 1) and two Mutexes, with one or two locks held, and
\* each has last acquired the RWMutex as a reader or as a writer.
JudgeLocks == {m \in Locks : m <= 3}

JudgeRoutines == {0, 1, 2}

JudgeDeps ==
    {newDependency(m, hs, Len(hs)) :
        m \in JudgeLocks,
        hs \in {<<a>> : a \in JudgeLocks}
              \cup {<<a, b>> : a \in JudgeLocks, b \in JudgeLocks}}

\* the dependencies a goroutine can record: the holding set has no
\* duplicates and contains the acquired lock only if that is the RWMutex,
\* read-locked again by a goroutine that holds nothing but its read lock
JudgeDepOk(d) ==
    /\ \A x \in 1..d.holdingCount :
           d.holdingSet[x] = d.mu
               => ClientKind("judge", d.mu) = "RWMutex" /\ d.holdingCount = 1
    /\ d.holdingCount = 2 => d.holdingSet[1] # d.holdingSet[2]

InitJudge ==
    /\ client = "judge"
    /\ memoryPosition = DefaultLayout
    /\ opts = DefaultOpts
    /\ initialized = TRUE
    /\ tickers = 1
    /\ kind = [m \in Locks |-> ClientKind("judge", m)]
    /\ started = {1, 2, 3}
    /\ \E ds \in [JudgeRoutines -> {d \in JudgeDeps : JudgeDepOk(d)}] :
           routines = [i \in 1..3 |->
                          [index |-> i - 1, holdingCount |-> 0, holdingSet |-> <<>>,
                           dependencies |-> <<ds[i - 1]>>, curDep |-> 0,
                           depCount |-> 1]]
    /\ mapIndex = [t \in Threads |-> IF t <= 3 THEN t - 1 ELSE NoIndex]
    /\ numberLocked = [m \in Locks |-> 0]
    /\ isLockedRoutineIndex = [m \in Locks |-> [i \in Indices |-> 0]]
    /\ \E readers \in SUBSET JudgeRoutines :
           isRLock = [m \in Locks |-> IF m = 1 THEN readers ELSE {}]
    /\ mu = [m \in Locks |-> [w |-> 0, r |-> [t \in Threads |-> 0]]]
    /\ pc = [t \in Threads |-> Idle]
    /\ lastHolding = [i \in 0..NThreads |-> 0]
    /\ tickPc = "idle"
    /\ phase = "run"
    /\ exitReason = NoReason
    /\ reports = <<>>
    /\ alarm = <<>>
    /\ last = NoCall

\* the paths dfs has built when it calls the predicates: the seed of routine
\* 0, alone or followed by the dependency of routine 1
JudgePaths ==
    {push(<<>>, 0, 1, 0), push(push(<<>>, 0, 1, 0), 1, 1, 1)}

\* detector.go: dfs, the call isChain(stack, dep, i)
isChainCall(stack, cand) ==
    /\ phase = "run"
    /\ last' = [op |-> "isChain", t |-> 0, m |-> 0, stack |-> stack, dep |-> cand,
                ret |-> isChain(routines, stack, cand, cand.r)]
    /\ UNCHANGED <<cfgVars, regVars, lockVars, pc, detVars, endVars>>

\* detector.go: dfs, the call isCycleChain(stack, dep, i) that follows a
\* successful isChain
isCycleChainCall(stack, cand) ==
    /\ phase = "run"
    /\ isChain(routines, stack, cand, cand.r)
    /\ last' = [op |-> "isCycleChain", t |-> 0, m |-> 0, stack |-> stack,
                dep |-> cand,
                ret |-> isCycleChain(routines, stack, cand, cand.r)]
    /\ UNCHANGED <<cfgVars, regVars, lockVars, pc, detVars, endVars>>

NextJudge ==
    \/ \E stack \in JudgePaths, i \in JudgeRoutines :
           isChainCall(stack, [r |-> i, d |-> 1])
    \/ \E stack \in JudgePaths, i \in JudgeRoutines :
           isCycleChainCall(stack, [r |-> i, d |-> 1])
    \/ FindPotentialDeadlocksCall

SpecJudge == InitJudge /\ [][NextJudge]_vars

\* the locks of the holding set of the dependency of a path element
HeldIn(el) == DepLocks(DepEntry(routines, el))

\* lock m counts as read-held by routine i
ReadBy(m, i) == kind[m] = "RWMutex" /\ i \in isRLock[m]

\* (1) the lock the top dependency acquires is in the holding set of the
\* candidate, not as reader on both sides
LinkCondition(stack, cand) ==
    LET top == stack[Len(stack)]
        m == DepEntry(routines, top).mu
    IN  /\ m \in HeldIn(cand)
        /\ ~(ReadBy(m, cand.r) /\ ReadBy(m, top.index))

\* (2) the candidate is not on the path
FreshCondition(stack, cand) ==
    \A k \in 1..Len(stack) : <<stack[k].r, stack[k].d>> # <<cand.r, cand.d>>

\* (3) every lock common to the holding set of the candidate and that of a
\* dependency on the path is read-held on both sides
GateCondition(stack, cand) ==
    \A k \in 1..Len(stack) :
        \A m \in HeldIn(cand) \cap HeldIn(stack[k]) :
            ReadBy(m, stack[k].index) /\ ReadBy(m, cand.r)

\* C32 as the specification states it: isChain returns true exactly if the
\* lock the top dependency acquires occurs in the holding set of the
\* candidate with an occurrence that is not reader-reader, the candidate is
\* not already on the path, and every lock common to the holding sets of
\* the candidate and of a dependency on the path is read-held on both sides.
C32_IsChainConditions ==
    [][last'.op = "isChain" =>
           (last'.ret <=> /\ LinkCondition(last'.stack, last'.dep)
                          /\ FreshCondition(last'.stack, last'.dep)
                          /\ GateCondition(last'.stack, last'.dep))]_vars

\* isChain accepted a candidate that shares a read-held lock with the path
C32_Witness ==
    /\ last.op = "isChain"
    /\ last.ret
    /\ Len(last.stack) = 2
    /\ HeldIn(last.dep) \cap HeldIn(last.stack[1]) # {}

\* the lock the candidate acquires is in the holding set of the bottom
\* dependency, not read-held by the bottom routine and read-acquired by the
\* routine of the candidate at once
CycleCondition(stack, cand) ==
    LET m == DepEntry(routines, cand).mu
    IN  /\ m \in HeldIn(stack[1])
        /\ ~(ReadBy(m, stack[1].r) /\ ReadBy(m, cand.r))

\* C33 as the specification states it: isCycleChain returns true exactly if
\* the lock the candidate acquires occurs in the holding set of the bottom
\* dependency with an occurrence for which the hold of the bottom routine
\* and the acquisition of the candidate's routine are not both reader
\* acquisitions.
C33_IsCycleChainRule ==
    [][last'.op = "isCycleChain" =>
           (last'.ret <=> CycleCondition(last'.stack, last'.dep))]_vars

\* every element of the path carries the index of the routine that owns its
\* dependency
OwnerPaired(stack) == \A k \in 1..Len(stack) : stack[k].index = stack[k].r

\* C34 as the specification states it: every element pushed on the path by
\* the comprehensive and by the periodical search (seed, intermediate and
\* cycle-closing element) is paired with the index of the routine that owns
\* the dependency; the paths handed to the report show the elements pushed.
C34_PathElementsCarryOwner ==
    /\ \A s \in 1..Len(reports) : OwnerPaired(reports[s])
    /\ OwnerPaired(alarm)

\* the dependencies recorded in the lock trees
AllDeps ==
    {routines[i].dependencies[j] :
        <<i, j>> \in {p \in (1..numberRoutines) \X (1..MaxDeps + 1) :
                          p[2] <= routines[p[1]].depCount}}

\* C35 as the specification states it: when fewer than two distinct
\* signatures exist in the lock trees, so that FindPotentialDeadlocks skips
\* the search, the search on the same lock trees reports no cycle; and two
\* dependencies have the same signature only if they acquire the same lock
\* with the same holding set.
C35_ShortCircuitPreserving ==
    /\ ~isNumberDependenciesGreaterEqualTwo(routines) => detect(routines) = <<>>
    /\ \A d1 \in AllDeps, d2 \in AllDeps :
           getDependencyString(d1) = getDependencyString(d2)
               => d1.mu = d2.mu /\ d1.holdingSet = d2.holdingSet

\* the addresses of the locks in a 32-bit process whose heap spans several
\* hundred megabytes: 0x00500000, 0x09D96800 and 0x1F400010
FarLayout ==
    [m \in Locks |->
        CASE m = 1 -> 5242880
          [] m = 2 -> 165242880
          [] m = 3 -> 524288016
          [] OTHER -> 524288016 + 16 * m]

\* the far client: one goroutine takes lock 1 while it holds lock 2, the
\* other takes lock 3 while it holds lock 1; main calls
\* FindPotentialDeadlocks
InitFar == \E layout \in {DefaultLayout, FarLayout} : InitRunAt("far", layout)

NextFar ==
    \/ \E t \in Threads, m \in Locks : Lock(t, m)
    \/ \E t \in Threads : LockAcquire(t)
    \/ \E t \in Threads, m \in Locks : Unlock(t, m)
    \/ \E t \in Threads : UnlockRelease(t)
    \/ FindPotentialDeadlocksCall

SpecFar == InitFar /\ [][NextFar]_vars

\* ------------------------------------------------- the first constructors
\* mutex.go: NewLock / rwMutex.go: NewRWLock called by goroutine t, up to
\* the test of initialized: a constructor that finds the detector
\* initialized builds the lock, one that does not goes on to initialize()
NewLockTest(t, m) ==
    /\ phase = "run"
    /\ client = "first"
    /\ t \in started
    /\ m = t
    /\ pc[t] = Idle
    /\ kind[m] = "none"
    /\ ClientKind(client, m) # "none"
    /\ IF initialized
       THEN /\ kind' = [kind EXCEPT ![m] = ClientKind(client, m)]
            /\ UNCHANGED pc
       ELSE /\ pc' = [pc EXCEPT ![t] = [at |-> "new", m |-> m, rLock |-> FALSE,
                                        counted |-> FALSE]]
            /\ UNCHANGED kind
    /\ last' = NoCall
    /\ UNCHANGED <<client, opts, initialized, tickers, memoryPosition, started,
                   regVars, lockVars, detVars, endVars>>

\* the rest of the constructor of a goroutine that found the detector not
\* initialized: initialize() and the construction of the lock
NewLockInitialize(t) ==
    /\ phase = "run"
    /\ pc[t].at = "new"
    /\ initialize
    /\ kind' = [kind EXCEPT ![pc[t].m] = ClientKind(client, pc[t].m)]
    /\ pc' = [pc EXCEPT ![t] = Idle]
    /\ last' = NoCall
    /\ UNCHANGED <<client, opts, memoryPosition, started, mapIndex, lockVars,
                   detVars, endVars>>

\* the first client after main has started the other goroutine: no lock
\* has been created
InitFirst ==
    /\ client = "first"
    /\ memoryPosition = DefaultLayout
    /\ opts = DefaultOpts
    /\ initialized = FALSE
    /\ tickers = 0
    /\ kind = [m \in Locks |-> "none"]
    /\ started = ClientThreads("first")
    /\ routines = <<>>
    /\ mapIndex = [t \in Threads |-> NoIndex]
    /\ numberLocked = [m \in Locks |-> 0]
    /\ isLockedRoutineIndex = [m \in Locks |-> [i \in Indices |-> 0]]
    /\ isRLock = [m \in Locks |-> {}]
    /\ mu = [m \in Locks |-> [w |-> 0, r |-> [t \in Threads |-> 0]]]
    /\ pc = [t \in Threads |-> Idle]
    /\ lastHolding = [i \in 0..NThreads |-> 0]
    /\ tickPc = "idle"
    /\ phase = "run"
    /\ exitReason = NoReason
    /\ reports = <<>>
    /\ alarm = <<>>
    /\ last = NoCall

NextFirst ==
    \/ \E t \in Threads, m \in Locks : NewLockTest(t, m)
    \/ \E t \in Threads : NewLockInitialize(t)
    \/ \E t \in Threads, m \in Locks : Lock(t, m)
    \/ \E t \in Threads : LockAcquire(t)
    \/ \E t \in Threads, m \in Locks : Unlock(t, m)
    \/ \E t \in Threads : UnlockRelease(t)

SpecFirst == InitFirst /\ [][NextFirst]_vars

\* the record of a registered goroutine shows the locks the goroutine holds
RecordKept(t) ==
    \A m \in Locks :
        mu[m].w = t /\ pc[t] = Idle
            => m \in {RoutineAt(routines, mapIndex[t]).holdingSet[k] :
                         k \in 1..RoutineAt(routines, mapIndex[t]).holdingCount}

\* C36 as the specification states it: in every interleaving of the first
\* constructor calls the initialisation runs once: at most one ticker
\* goroutine is started, and the registry is not replaced after a goroutine
\* has registered, so that the record of a registered goroutine is kept.
C36_InitialisedOnce ==
    /\ tickers <= 1
    /\ \A t \in Threads : mapIndex[t] # NoIndex => RecordKept(t)

\* the goroutines that have registered
Registered == {t \in Threads : mapIndex[t] # NoIndex}

\* distinct goroutines have distinct indices, the indices are those of the
\* registry, and every record of the registry carries its own index
RegistryOk ==
    /\ \A t \in Registered, u \in Registered : t # u => mapIndex[t] # mapIndex[u]
    /\ {mapIndex[t] : t \in Registered} = 0..numberRoutines - 1
    /\ \A i \in 0..numberRoutines - 1 : routines[i + 1].index = i

\* C37 as the specification states it: in every interleaving of first
\* acquisitions distinct goroutines get distinct indices, the indices are
\* exactly 0..numberRoutines-1 with routines[i].index = i, a goroutine that
\* has an index keeps it (so that it is registered at most once), and its
\* record is never removed from the registry.
C37_RegistryConsistent ==
    [][/\ RegistryOk'
       /\ \A t \in Registered : mapIndex'[t] = mapIndex[t]
       /\ numberRoutines' >= numberRoutines
       /\ \A t \in Registered : RecordKept(t)']_vars

\* the record r without the occurrence of m closest to the top of its
\* holding set, the other entries in their order; r itself if m is not held
TopRemoved(r, m) ==
    LET occ == {i \in 1..r.holdingCount : r.holdingSet[i] = m}
        top == CHOOSE x \in occ : \A y \in occ : y <= x
    IN  IF occ = {} THEN r
        ELSE [r EXCEPT !.holdingCount = r.holdingCount - 1,
                       !.holdingSet =
                           [k \in 1..Len(r.holdingSet) - 1 |->
                               IF k < top THEN r.holdingSet[k]
                               ELSE r.holdingSet[k + 1]]]

\* goroutine t has called Unlock or RUnlock of m in this step and goes on
\* to release the primitive
UnlockProceeds(t, m) ==
    /\ pc[t] = Idle
    /\ pc'[t].at = "unlock"
    /\ pc'[t].m = m

\* C38 as the specification states it: an Unlock of m removes the topmost
\* occurrence of m from the holding set of the caller, decrements its
\* holdingCount and keeps the order of the other entries; if the caller
\* does not hold m in its holding set, or has never acquired a lock, the
\* thread state is unchanged; in each case the call goes on to release the
\* primitive.
C38_UnlockTopmost ==
    [][\A m \in Locks :
           numberLocked'[m] < numberLocked[m] =>
               \E t \in started :
                   /\ UnlockProceeds(t, m)
                   /\ routines' =
                          IF mapIndex[t] = NoIndex THEN routines
                          ELSE [routines EXCEPT ![mapIndex[t] + 1] =
                                                    TopRemoved(@, m)]]_vars

\* the live holding set of a record: holdingSet[0..holdingCount)
LivePrefix(r) == SubSeq(r.holdingSet, 1, r.holdingCount)

\* C39 as the specification states it: a dependency that is in the lock
\* tree of a goroutine never changes under a later Lock, TryLock or Unlock
\* of any goroutine (the splice of updateUnlock included), and a dependency
\* that is added holds the live holding set of its goroutine at the time of
\* recording.
C39_DependenciesImmutable ==
    [][\A i \in 1..numberRoutines :
           /\ routines'[i].depCount >= routines[i].depCount
           /\ \A k \in 1..routines[i].depCount :
                  routines'[i].dependencies[k] = routines[i].dependencies[k]
           /\ \A k \in routines[i].depCount + 1..routines'[i].depCount :
                  /\ routines'[i].dependencies[k].holdingCount
                         = routines[i].holdingCount
                  /\ SubSeq(routines'[i].dependencies[k].holdingSet, 1,
                            routines[i].holdingCount)
                         = LivePrefix(routines[i])]_vars

\* a goroutine has released the lock a dependency shows at the bottom of
\* its holding set while it keeps a lock it took later
C39_Witness ==
    \E i \in 1..numberRoutines :
        \E k \in 1..routines[i].depCount :
            /\ routines[i].holdingCount >= 1
            /\ routines[i].dependencies[k].holdingSet[1] # routines[i].holdingSet[1]
            /\ routines[i].dependencies[k].mu = routines[i].holdingSet[1]

\* ------------------------------------------------------ the full registry
\* the ring client after main has called SetMaxRoutines with the number of
\* goroutines that take locks, created its locks and started the goroutines
InitFull ==
    InitRunWith("ring", DefaultLayout,
                [DefaultOpts EXCEPT
                     !.maxRoutines = Cardinality(ClientThreads("ring") \ {Main})])

SpecFull == InitFull /\ [][NextLive]_vars

\* no dependency is twice on the path
NoRepeat(stack) ==
    \A a \in 1..Len(stack), b \in 1..Len(stack) :
        a # b => <<stack[a].r, stack[a].d>> # <<stack[b].r, stack[b].d>>

\* no two dependencies of the path belong to the same routine
OnePerRoutine(stack) ==
    \A a \in 1..Len(stack), b \in 1..Len(stack) : a # b => stack[a].r # stack[b].r

\* C40 as the specification states it: the comprehensive search and each
\* periodical pass come to an end by returning (or by the exit that follows
\* a report), the path holds no dependency twice and, in the comprehensive
\* search, no two dependencies of one routine, and it is never deeper than
\* the number of registered routines.
C40_SearchesTerminate ==
    [][/\ tickPc = "detect" => phase' # "panic"
       /\ \A s \in 1..Len(reports') :
              /\ NoRepeat(reports'[s])
              /\ OnePerRoutine(reports'[s])
              /\ Len(reports'[s]) <= numberRoutines
       /\ NoRepeat(alarm')
       /\ Len(alarm') <= numberRoutines]_vars

====
